---------------------------- MODULE Spec2Model ----------------------------
(***************************************************************************)
(* Model of the latency tracking and menu caching code of                  *)
(* src/livekit/Livekit_Voice_Agent.py:                                     *)
(*   - class LatencyTracker (per-call turn timing, flushed to Supabase),   *)
(*   - the metrics_collected handler of entrypoint (second storage site),  *)
(*   - class MenuCache and fetch_menu_for_prompt (TTL cache of the menu).  *)
(*                                                                         *)
(* Conventions.  A Python value that may be None is modelled as a sequence *)
(* of length at most one: None is << >> and the value v is << v >>.        *)
(* time.perf_counter() and time.time() are integers counting seconds, and  *)
(* a duration in milliseconds is the difference times 1000, as in the      *)
(* source.  Every handler of the source is one operator on the object's    *)
(* record (named as in the source) and one action that applies it.         *)
(***************************************************************************)
EXTENDS Integers, Sequences, FiniteSets, TLC

VARIABLES
    lt,            \* the LatencyTracker instance of the call (entrypoint, line 986)
    turn_metrics,  \* the dict turn_metrics of entrypoint (line 998)
    now,           \* the reading of time.perf_counter()
    supabase,      \* whether the module-level Supabase client is configured
    fx,            \* what the last handler did to the outside: store and log
    cache,         \* the module-level MenuCache instance _menu_cache
    wall,          \* the reading of time.time()
    callers,       \* the calls of fetch_menu_for_prompt, each at its place in the code
    entry,         \* what set() last stored and when, None after invalidate()
    sessions,      \* the tracker and the dict turn_metrics of each call of a process
                   \* that serves several calls at once
    outstanding,   \* the rows whose insert(...).execute() has not returned
    latency_metrics, \* the turn_number of each row of the call in the table
                   \* latency_metrics, in the order the rows were written
    current_order, \* RestaurantAgent.current_order (Livekit_Voice_Agent.py, line 581)
    order,         \* context.order of the function tools (order_tools.py, line 21),
                   \* None while the context has none
    reply          \* how the last function tool or method of the order ended

vars ==
    << lt, turn_metrics, now, supabase, fx, cache, wall, callers, entry, sessions,
       outstanding, latency_metrics, current_order, order, reply >>

trackerVars == << lt, turn_metrics, now, supabase, fx >>

cacheVars == << cache, wall, callers, entry >>

orderVars == << current_order, order, reply >>

processVars == << sessions, outstanding, latency_metrics, orderVars >>

---------------------------------------------------------------------------
(* Bounds of the model. *)

\* perf_counter() readings are 1..MaxNow
MaxNow == 2

\* at most MaxTurns turns are counted per call
MaxTurns == 1

\* the callers of fetch_menu_for_prompt that may run at the same time
MaxCallers == 2

\* the turns counted where the summary of every fifth turn is followed
SummaryTurns == 5

\* the calls a process serves at the same time
MaxSessions == 2

\* the items an order is followed up to
MaxItems == 2

\* time.time() is followed over MaxPeriods periods of a little more than the TTL
MaxPeriods == 2

\* the first reading of time.time()
WallStart == 1000

---------------------------------------------------------------------------
(* Python values. *)

None == << >>

Some(v) == << v >>

\* Python truthiness of an optional number: None and 0 are false
Truthy(x) == x # None /\ x[1] # 0

\* a duration that is 0 when one of its two instants is missing
DurationMs_defaulting_to_zero(a, b) ==
    IF Truthy(a) /\ Truthy(b) THEN Some((b[1] - a[1]) * 1000) ELSE Some(0)

\* (b - a) * 1000 when both are truthy, else None: the pattern of lines 234-265
DurationMs(a, b) == IF Truthy(a) /\ Truthy(b) THEN Some((b[1] - a[1]) * 1000) ELSE None

\* round(x, 1) if x else None, lines 288-292; the durations of the model are
\* whole milliseconds, which round(x, 1) leaves as they are
RoundOrNone(x) == IF Truthy(x) THEN x ELSE None

\* {k: v for k, v in record.items() if v is not None}, lines 412 and 1095
RemoveNone(record) == [k \in {j \in DOMAIN record : record[j] # None} |-> record[k][1]]

---------------------------------------------------------------------------
(* class LatencyTracker, lines 88-440. *)

\* the model configuration the constructor sets, lines 98-105
DefaultModelConfig ==
    [stt_provider |-> "deepgram", stt_model |-> "nova-2",
     llm_provider |-> "openai", llm_model |-> "gpt-4o-mini",
     tts_provider |-> "cartesia", tts_model |-> "sonic-2"]

\* LatencyTracker._reset_turn_state, lines 110-129
reset_turn_state(self) ==
    [self EXCEPT !.turn_start = None,
                 !.user_speech_start = None,
                 !.user_speech_end = None,
                 !.stt_start = None,
                 !.stt_end = None,
                 !.llm_start = None,
                 !.llm_first_token = None,
                 !.llm_end = None,
                 !.tts_start = None,
                 !.tts_first_byte = None,
                 !.tts_end = None,
                 !.agent_speech_start = None,
                 !.agent_speech_end = None,
                 !.transcript = "",
                 !.response = "",
                 !.llm_tokens_in = 0,
                 !.llm_tokens_out = 0,
                 !.metric_timestamp = None]

\* LatencyTracker.__init__, lines 91-108
NewLatencyTracker ==
    reset_turn_state(
        [turn_count |-> 0, metrics_history |-> << >>, call_id |-> None, region |-> None,
         model_config |-> DefaultModelConfig,
         turn_start |-> None, user_speech_start |-> None, user_speech_end |-> None,
         stt_start |-> None, stt_end |-> None, llm_start |-> None,
         llm_first_token |-> None, llm_end |-> None, tts_start |-> None,
         tts_first_byte |-> None, tts_end |-> None, agent_speech_start |-> None,
         agent_speech_end |-> None, transcript |-> "", response |-> "",
         llm_tokens_in |-> 0, llm_tokens_out |-> 0, metric_timestamp |-> None])

\* the fields _reset_turn_state assigns
TurnFields ==
    {"turn_start", "user_speech_start", "user_speech_end", "stt_start", "stt_end",
     "llm_start", "llm_first_token", "llm_end", "tts_start", "tts_first_byte",
     "tts_end", "agent_speech_start", "agent_speech_end", "transcript", "response",
     "llm_tokens_in", "llm_tokens_out", "metric_timestamp"}

\* LatencyTracker.set_call_info, lines 131-134
set_call_info(self, call_id, region) ==
    [self EXCEPT !.call_id = call_id, !.region = region]

\* LatencyTracker.set_model_config, lines 136-147
set_model_config(self, config) == [self EXCEPT !.model_config = config]

\* on_user_started_speaking closing the turn in flight as a flush would: the turn
\* is counted, entered in the history and handed to the store before the new one
\* starts
on_user_started_speaking_flushing(self, t) ==
    IF Truthy(self.turn_start)
    THEN [self |-> [self EXCEPT !.turn_count = @ + 1,
                                !.metrics_history =
                                    Append(@, [turn |-> self.turn_count + 1,
                                               ttfb_ms |-> None]),
                                !.turn_start = Some(t),
                                !.user_speech_start = Some(t)],
          fx |-> [store_calls |-> 1, inserts |-> << >>, written |-> << >>,
                  warnings |-> 0, errors |-> 0, raised |-> FALSE, summary |-> None,
                  superseded |-> TRUE, routed |-> None]]
    ELSE [self |-> [self EXCEPT !.turn_start = Some(t), !.user_speech_start = Some(t)],
          fx |-> [store_calls |-> 0, inserts |-> << >>, written |-> << >>,
                  warnings |-> 0, errors |-> 0, raised |-> FALSE, summary |-> None,
                  superseded |-> FALSE, routed |-> None]]

\* LatencyTracker.on_user_started_speaking, lines 149-154: the tracker afterwards
\* and the effects of the call (it logs at level DEBUG and calls nothing)
on_user_started_speaking(self, t) ==
    [self |-> [self EXCEPT !.turn_start = Some(t), !.user_speech_start = Some(t)],
     fx |-> [store_calls |-> 0, inserts |-> << >>, written |-> << >>,
             warnings |-> 0, errors |-> 0, raised |-> FALSE, summary |-> None,
             superseded |-> Truthy(self.turn_start), routed |-> None]]

\* LatencyTracker.on_user_stopped_speaking, lines 156-163
on_user_stopped_speaking(self, t) ==
    [self EXCEPT !.user_speech_end = Some(t), !.stt_start = Some(t)]

\* on_stt_complete that records the end of recognition and leaves the start of
\* the LLM stage for the first token to set
on_stt_complete_leaving_llm_start(self, t, transcript) ==
    [self EXCEPT !.stt_end = Some(t), !.transcript = transcript]

\* LatencyTracker.on_stt_complete, lines 165-175
on_stt_complete(self, t, transcript) ==
    [self EXCEPT !.stt_end = Some(t), !.llm_start = Some(t), !.transcript = transcript]

\* LatencyTracker.on_llm_first_token, lines 177-183
on_llm_first_token(self, t) == [self EXCEPT !.llm_first_token = Some(t)]

\* LatencyTracker.on_llm_complete, lines 185-196
on_llm_complete(self, t, response, tokens_in, tokens_out) ==
    [self EXCEPT !.llm_end = Some(t), !.tts_start = Some(t), !.response = response,
                 !.llm_tokens_in = tokens_in, !.llm_tokens_out = tokens_out]

\* LatencyTracker.on_tts_first_byte, lines 198-204
on_tts_first_byte(self, t) == [self EXCEPT !.tts_first_byte = Some(t)]

\* LatencyTracker.on_agent_started_speaking, lines 206-213
on_agent_started_speaking(self, t) == [self EXCEPT !.agent_speech_start = Some(t)]

---------------------------------------------------------------------------
(* The flush of a turn: lines 215-440. *)

\* the effects of a handler that touches neither the store nor the log of warnings:
\*   store_calls  calls of _store_metrics_in_supabase
\*   inserts      the rows handed to insert(), written those the store returned
\*   warnings     lines logged at level WARNING, errors at level ERROR
\*   raised       an exception left the handler
\*   summary      the summary _log_summary logged
\*   superseded   on_user_started_speaking found turn_start already set
\*   routed       the metrics object a step of LogRoutedMetrics handed to log_metrics
NoEffects ==
    [store_calls |-> 0, inserts |-> << >>, written |-> << >>,
     warnings |-> 0, errors |-> 0, raised |-> FALSE, summary |-> None,
     superseded |-> FALSE, routed |-> None]

\* the outcomes of supabase.table(...).insert(record).execute(): rows returned,
\* no rows returned, or an exception
InsertOutcomes == {"data", "nodata", "raise"}

\* the row handed to insert(), lines 377-412
SupabaseRecord(self, kwargs) ==
    RemoveNone(
        [call_id |-> IF self.call_id # None /\ self.call_id[1] # ""
                     THEN self.call_id ELSE Some("unknown"),
         turn_number |-> Some(self.turn_count),
         sequence_id |-> None,
         stt_provider |-> Some(self.model_config.stt_provider),
         stt_model |-> Some(self.model_config.stt_model),
         llm_provider |-> Some(self.model_config.llm_provider),
         llm_model |-> Some(self.model_config.llm_model),
         tts_provider |-> Some(self.model_config.tts_provider),
         tts_model |-> Some(self.model_config.tts_model),
         ttfb_ms |-> kwargs.ttfb_ms,
         end_to_end_ms |-> kwargs.end_to_end_ms,
         stt_duration_ms |-> kwargs.stt_ms,
         llm_ttfb_ms |-> kwargs.llm_ttfb_ms,
         llm_total_ms |-> kwargs.llm_total_ms,
         tts_ttfb_ms |-> kwargs.tts_ttfb_ms,
         user_speech_duration_ms |-> kwargs.user_speech_ms,
         agent_speech_duration_ms |-> kwargs.agent_speech_ms,
         llm_tokens_in |-> IF self.llm_tokens_in # 0
                           THEN Some(self.llm_tokens_in) ELSE None,
         llm_tokens_out |-> IF self.llm_tokens_out # 0
                            THEN Some(self.llm_tokens_out) ELSE None,
         transcript_length |-> IF self.transcript # ""
                               THEN Some(Len(self.transcript)) ELSE None,
         response_length |-> IF self.response # ""
                             THEN Some(Len(self.response)) ELSE None,
         region |-> self.region,
         agent_version |-> Some("1.0.0"),
         metric_timestamp |-> IF Truthy(self.metric_timestamp)
                              THEN Some(<< "isoformat", self.metric_timestamp[1] >>)
                              ELSE None])

\* _store_metrics_in_supabase without its try/except: the exception of a failing
\* insert leaves the method
store_metrics_in_supabase_unguarded(self, kwargs, sb, outcome) ==
    IF ~sb
    THEN [NoEffects EXCEPT !.store_calls = 1, !.warnings = 1]
    ELSE [NoEffects EXCEPT
              !.store_calls = 1,
              !.inserts = << SupabaseRecord(self, kwargs) >>,
              !.written = IF outcome = "data"
                          THEN << SupabaseRecord(self, kwargs) >> ELSE << >>,
              !.warnings = IF outcome = "nodata" THEN 1 ELSE 0,
              !.raised = (outcome = "raise")]

\* LatencyTracker._store_metrics_in_supabase, lines 370-423: its effects, with the
\* client configured or not (sb) and the outcome of the insert
store_metrics_in_supabase(self, kwargs, sb, outcome) ==
    IF ~sb
    THEN [NoEffects EXCEPT !.store_calls = 1, !.warnings = 1]
    ELSE [NoEffects EXCEPT
              !.store_calls = 1,
              !.inserts = << SupabaseRecord(self, kwargs) >>,
              !.written = IF outcome = "data"
                          THEN << SupabaseRecord(self, kwargs) >> ELSE << >>,
              !.warnings = IF outcome = "nodata" THEN 1 ELSE 0,
              !.errors = IF outcome = "raise" THEN 1 ELSE 0,
              !.raised = FALSE]

\* the durations with TTFB measured from the start of the turn, which counts the
\* time the user spoke
TurnDurationsFromTurnStart(self) ==
    [user_speech_ms |-> DurationMs(self.user_speech_start, self.user_speech_end),
     stt_ms |-> DurationMs(self.stt_start, self.stt_end),
     llm_ttfb_ms |-> DurationMs(self.llm_start, self.llm_first_token),
     llm_total_ms |-> DurationMs(self.llm_start, self.llm_end),
     tts_ttfb_ms |-> DurationMs(self.tts_start, self.tts_first_byte),
     end_to_end_ms |-> DurationMs(self.turn_start, self.agent_speech_start),
     agent_speech_ms |-> DurationMs(self.agent_speech_start, self.agent_speech_end),
     ttfb_ms |-> DurationMs(self.turn_start, self.agent_speech_start)]

\* the durations _store_turn_metrics derives, lines 233-265
TurnDurations(self) ==
    [user_speech_ms |-> DurationMs(self.user_speech_start, self.user_speech_end),
     stt_ms |-> DurationMs(self.stt_start, self.stt_end),
     llm_ttfb_ms |-> DurationMs(self.llm_start, self.llm_first_token),
     llm_total_ms |-> DurationMs(self.llm_start, self.llm_end),
     tts_ttfb_ms |-> DurationMs(self.tts_start, self.tts_first_byte),
     end_to_end_ms |-> DurationMs(self.turn_start, self.agent_speech_start),
     agent_speech_ms |-> DurationMs(self.agent_speech_start, self.agent_speech_end),
     ttfb_ms |-> DurationMs(self.user_speech_end, self.agent_speech_start)]

\* the entry appended to metrics_history, lines 286-294.  The entry of the source
\* also holds end_to_end_ms, stt_ms, llm_ttfb_ms, tts_ttfb_ms (each
\* RoundOrNone of its duration) and the wall-clock time of the flush; no code
\* reads them (_log_summary reads ttfb_ms alone), and the model keeps the two
\* keys that are read.
HistoryEntry(turn, d) == [turn |-> turn, ttfb_ms |-> RoundOrNone(d.ttfb_ms)]

RECURSIVE SumSeq(_)
SumSeq(s) == IF s = << >> THEN 0 ELSE Head(s) + SumSeq(Tail(s))

\* the least (greatest) element of a non-empty sequence of numbers
MinSeq(s) == CHOOSE x \in {s[i] : i \in DOMAIN s} : \A j \in DOMAIN s : x <= s[j]

MaxSeq(s) == CHOOSE x \in {s[i] : i \in DOMAIN s} : \A j \in DOMAIN s : x >= s[j]

\* LatencyTracker._log_summary, lines 425-440: the summary logged, or None;
\* the average is sum / count
log_summary(self) ==
    LET ttfb_values == SelectSeq([i \in DOMAIN self.metrics_history |->
                                     self.metrics_history[i].ttfb_ms], Truthy)
    IN  IF ttfb_values = << >>
        THEN None
        ELSE LET v == [i \in DOMAIN ttfb_values |-> ttfb_values[i][1]]
             IN  Some([count |-> Len(v), sum |-> SumSeq(v),
                       min |-> MinSeq(v), max |-> MaxSeq(v)])

\* _store_turn_metrics without its last line, the reset for the next turn
store_turn_metrics_no_reset(self, sb, outcome) ==
    IF ~Truthy(self.turn_start)
    THEN [self |-> self, fx |-> NoEffects]
    ELSE LET counted == [self EXCEPT !.turn_count = @ + 1]
             d == TurnDurations(counted)
             appended == [counted EXCEPT !.metrics_history =
                              Append(@, HistoryEntry(counted.turn_count, d))]
             stored == store_metrics_in_supabase(appended, d, sb, outcome)
         IN  [self |-> appended, fx |-> stored]

\* LatencyTracker._store_turn_metrics, lines 224-316: the tracker afterwards and
\* the effects of the call
store_turn_metrics(self, sb, outcome) ==
    IF ~Truthy(self.turn_start)
    THEN [self |-> self, fx |-> NoEffects]
    ELSE LET counted == [self EXCEPT !.turn_count = @ + 1]
             d == TurnDurations(counted)
             appended == [counted EXCEPT !.metrics_history =
                              Append(@, HistoryEntry(counted.turn_count, d))]
             stored == store_metrics_in_supabase(appended, d, sb, outcome)
             summary == IF appended.turn_count % 5 = 0
                        THEN log_summary(appended) ELSE None
         IN  IF stored.raised
             THEN [self |-> appended, fx |-> stored]
             ELSE [self |-> reset_turn_state(appended),
                   fx |-> [stored EXCEPT !.summary = summary]]

\* LatencyTracker.on_agent_stopped_speaking, lines 215-222
on_agent_stopped_speaking(self, t, sb, outcome) ==
    store_turn_metrics([self EXCEPT !.agent_speech_end = Some(t)], sb, outcome)

---------------------------------------------------------------------------
(* Metric events.  An event is a record of the attributes the handlers read; *)
(* an attribute the object does not have (or that is None) is None.          *)

\* a metrics object of class `kind` with no attribute set
Metric(kind) ==
    [kind |-> kind, timestamp |-> None, duration |-> None, audio_duration |-> None,
     ttft |-> None, ttfb |-> None, tokens_in |-> None, tokens_out |-> None,
     prompt_tokens |-> None, completion_tokens |-> None]

\* log_metrics with the last event winning: an event with ttft (ttfb) sets
\* llm_first_token (tts_first_byte) whether it is set or not
log_metrics_last_writer_wins(self, collected_metrics, t) ==
    LET metric_type == collected_metrics.kind
        stamped == IF Truthy(collected_metrics.timestamp)
                   THEN [self EXCEPT !.metric_timestamp = collected_metrics.timestamp]
                   ELSE self
    IN  IF metric_type = "STTMetrics"
        THEN stamped
        ELSE IF metric_type = "LLMMetrics"
        THEN [stamped EXCEPT
                 !.llm_first_token =
                     IF Truthy(collected_metrics.ttft) THEN Some(t) ELSE @,
                 !.llm_tokens_out =
                     IF collected_metrics.tokens_out # None
                     THEN collected_metrics.tokens_out[1] ELSE @,
                 !.llm_tokens_in =
                     IF collected_metrics.tokens_in # None
                     THEN collected_metrics.tokens_in[1] ELSE @]
        ELSE IF metric_type = "TTSMetrics"
        THEN [stamped EXCEPT
                 !.tts_first_byte =
                     IF Truthy(collected_metrics.ttfb) THEN Some(t) ELSE @]
        ELSE stamped

\* log_metrics starting the turn afresh at an object of a class it does not know
log_metrics_resetting_on_unknown(self, collected_metrics, t) ==
    LET metric_type == collected_metrics.kind
        stamped == IF Truthy(collected_metrics.timestamp)
                   THEN [self EXCEPT !.metric_timestamp = collected_metrics.timestamp]
                   ELSE self
    IN  IF metric_type = "STTMetrics"
        THEN stamped
        ELSE IF metric_type = "LLMMetrics"
        THEN [stamped EXCEPT
                 !.llm_first_token =
                     IF Truthy(collected_metrics.ttft) /\ ~Truthy(@) THEN Some(t) ELSE @,
                 !.llm_tokens_out =
                     IF collected_metrics.tokens_out # None
                     THEN collected_metrics.tokens_out[1] ELSE @,
                 !.llm_tokens_in =
                     IF collected_metrics.tokens_in # None
                     THEN collected_metrics.tokens_in[1] ELSE @]
        ELSE IF metric_type = "TTSMetrics"
        THEN [stamped EXCEPT
                 !.tts_first_byte =
                     IF Truthy(collected_metrics.ttfb) /\ ~Truthy(@) THEN Some(t) ELSE @]
        ELSE IF metric_type \in {"VADMetrics", "EOUMetrics"}
        THEN stamped
        ELSE reset_turn_state(stamped)

\* log_metrics keeping the first timestamp of the turn instead of the last
log_metrics_keeping_first_timestamp(self, collected_metrics, t) ==
    LET metric_type == collected_metrics.kind
        stamped == IF Truthy(collected_metrics.timestamp) /\ ~Truthy(self.metric_timestamp)
                   THEN [self EXCEPT !.metric_timestamp = collected_metrics.timestamp]
                   ELSE self
    IN  IF metric_type = "STTMetrics"
        THEN stamped
        ELSE IF metric_type = "LLMMetrics"
        THEN [stamped EXCEPT
                 !.llm_first_token =
                     IF Truthy(collected_metrics.ttft) /\ ~Truthy(@) THEN Some(t) ELSE @,
                 !.llm_tokens_out =
                     IF collected_metrics.tokens_out # None
                     THEN collected_metrics.tokens_out[1] ELSE @,
                 !.llm_tokens_in =
                     IF collected_metrics.tokens_in # None
                     THEN collected_metrics.tokens_in[1] ELSE @]
        ELSE IF metric_type = "TTSMetrics"
        THEN [stamped EXCEPT
                 !.tts_first_byte =
                     IF Truthy(collected_metrics.ttfb) /\ ~Truthy(@) THEN Some(t) ELSE @]
        ELSE stamped

\* LatencyTracker.log_metrics, lines 318-368
log_metrics(self, collected_metrics, t) ==
    LET metric_type == collected_metrics.kind
        stamped == IF Truthy(collected_metrics.timestamp)
                   THEN [self EXCEPT !.metric_timestamp = collected_metrics.timestamp]
                   ELSE self
    IN  IF metric_type = "STTMetrics"
        THEN stamped
        ELSE IF metric_type = "LLMMetrics"
        THEN [stamped EXCEPT
                 !.llm_first_token =
                     IF Truthy(collected_metrics.ttft) /\ ~Truthy(@) THEN Some(t) ELSE @,
                 !.llm_tokens_out =
                     IF collected_metrics.tokens_out # None
                     THEN collected_metrics.tokens_out[1] ELSE @,
                 !.llm_tokens_in =
                     IF collected_metrics.tokens_in # None
                     THEN collected_metrics.tokens_in[1] ELSE @]
        ELSE IF metric_type = "TTSMetrics"
        THEN [stamped EXCEPT
                 !.tts_first_byte =
                     IF Truthy(collected_metrics.ttfb) /\ ~Truthy(@) THEN Some(t) ELSE @]
        ELSE stamped

---------------------------------------------------------------------------
(* entrypoint: the tracker of the call and the metrics_collected handler,   *)
(* lines 985-1120.                                                          *)

\* ctx.room.name, line 949
CallId == "room-1"

\* settings.llm_provider and settings.effective_llm_model, lines 991-992
Settings == [llm_provider |-> "groq", effective_llm_model |-> "llama-3.3-70b-versatile"]

\* the tracker as entrypoint configures it, lines 986-995
EntrypointTracker ==
    set_model_config(
        set_call_info(NewLatencyTracker, Some(CallId), Some("Australia")),
        [stt_provider |-> "deepgram", stt_model |-> "nova-2",
         llm_provider |-> Settings.llm_provider,
         llm_model |-> Settings.effective_llm_model,
         tts_provider |-> "cartesia", tts_model |-> "sonic-2"])

\* the dict turn_metrics as created and as reset, lines 998-1005 and 1110-1117
EmptyTurnMetrics ==
    [user_speech_duration_ms |-> None, llm_ttfb_ms |-> None, llm_total_ms |-> None,
     llm_tokens_in |-> None, llm_tokens_out |-> None, tts_ttfb_ms |-> None]

\* x * 1000 of an optional number that is set
Ms(x) == Some(x[1] * 1000)

\* sum(filter(None, [a, b])), lines 1060-1063
SumTruthy(a, b) ==
    (IF Truthy(a) THEN a[1] ELSE 0) + (IF Truthy(b) THEN b[1] ELSE 0)

\* the row of the handler with the time the user spoke counted in ttfb_ms
CollectedRecord_counting_speech(tm, turn_count) ==
    LET total_ttfb == SumTruthy(tm.llm_ttfb_ms, tm.tts_ttfb_ms)
                          + SumTruthy(tm.user_speech_duration_ms, None)
    IN  RemoveNone(
            [call_id |-> Some(CallId),
             turn_number |-> Some(turn_count + 1),
             stt_provider |-> Some("deepgram"),
             stt_model |-> Some("nova-2"),
             llm_provider |-> Some(Settings.llm_provider),
             llm_model |-> Some(Settings.effective_llm_model),
             tts_provider |-> Some("cartesia"),
             tts_model |-> Some("sonic-2"),
             ttfb_ms |-> IF total_ttfb > 0 THEN Some(total_ttfb) ELSE None,
             user_speech_duration_ms |-> tm.user_speech_duration_ms,
             llm_ttfb_ms |-> tm.llm_ttfb_ms,
             llm_total_ms |-> tm.llm_total_ms,
             tts_ttfb_ms |-> tm.tts_ttfb_ms,
             llm_tokens_in |-> tm.llm_tokens_in,
             llm_tokens_out |-> tm.llm_tokens_out,
             region |-> Some("Australia"),
             agent_version |-> Some("1.0.0")])

\* the row of the handler numbered with the turns counted so far, not the next
CollectedRecord_numbered_with_count(tm, turn_count) ==
    LET total_ttfb == SumTruthy(tm.llm_ttfb_ms, tm.tts_ttfb_ms)
    IN  RemoveNone(
            [call_id |-> Some(CallId),
             turn_number |-> Some(turn_count),
             stt_provider |-> Some("deepgram"),
             stt_model |-> Some("nova-2"),
             llm_provider |-> Some(Settings.llm_provider),
             llm_model |-> Some(Settings.effective_llm_model),
             tts_provider |-> Some("cartesia"),
             tts_model |-> Some("sonic-2"),
             ttfb_ms |-> IF total_ttfb > 0 THEN Some(total_ttfb) ELSE None,
             user_speech_duration_ms |-> tm.user_speech_duration_ms,
             llm_ttfb_ms |-> tm.llm_ttfb_ms,
             llm_total_ms |-> tm.llm_total_ms,
             tts_ttfb_ms |-> tm.tts_ttfb_ms,
             llm_tokens_in |-> tm.llm_tokens_in,
             llm_tokens_out |-> tm.llm_tokens_out,
             region |-> Some("Australia"),
             agent_version |-> Some("1.0.0")])

\* the row handed to insert() by the handler, lines 1070-1095
CollectedRecord(tm, turn_count) ==
    LET total_ttfb == SumTruthy(tm.llm_ttfb_ms, tm.tts_ttfb_ms)
    IN  RemoveNone(
            [call_id |-> Some(CallId),
             turn_number |-> Some(turn_count + 1),
             stt_provider |-> Some("deepgram"),
             stt_model |-> Some("nova-2"),
             llm_provider |-> Some(Settings.llm_provider),
             llm_model |-> Some(Settings.effective_llm_model),
             tts_provider |-> Some("cartesia"),
             tts_model |-> Some("sonic-2"),
             ttfb_ms |-> IF total_ttfb > 0 THEN Some(total_ttfb) ELSE None,
             user_speech_duration_ms |-> tm.user_speech_duration_ms,
             llm_ttfb_ms |-> tm.llm_ttfb_ms,
             llm_total_ms |-> tm.llm_total_ms,
             tts_ttfb_ms |-> tm.tts_ttfb_ms,
             llm_tokens_in |-> tm.llm_tokens_in,
             llm_tokens_out |-> tm.llm_tokens_out,
             region |-> Some("Australia"),
             agent_version |-> Some("1.0.0")])

\* entrypoint.on_metrics_collected, lines 1008-1120: the dict, the tracker and
\* the effects afterwards
on_metrics_collected(tm, self, m, sb, outcome) ==
    LET metric_type == m.kind
        Positive(x) == x # None /\ x[1] > 0
    IN  IF metric_type = "STTMetrics"
        THEN [turn_metrics |->
                  IF Truthy(m.audio_duration) /\ m.audio_duration[1] > 0
                  THEN [tm EXCEPT !.user_speech_duration_ms = Ms(m.audio_duration)]
                  ELSE tm,
              self |-> self, fx |-> NoEffects]
        ELSE IF metric_type = "LLMMetrics"
        THEN [turn_metrics |->
                  [tm EXCEPT
                      !.llm_ttfb_ms = IF Positive(m.ttft) THEN Ms(m.ttft) ELSE @,
                      !.llm_total_ms = IF Positive(m.duration) THEN Ms(m.duration) ELSE @,
                      !.llm_tokens_in = IF m.prompt_tokens # None
                                        THEN m.prompt_tokens ELSE @,
                      !.llm_tokens_out = IF m.completion_tokens # None
                                         THEN m.completion_tokens ELSE @],
              self |-> self, fx |-> NoEffects]
        ELSE IF metric_type = "TTSMetrics"
        THEN LET acc == IF Truthy(m.ttfb)
                        THEN [tm EXCEPT !.tts_ttfb_ms = Ms(m.ttfb)] ELSE tm
                 record == CollectedRecord(acc, self.turn_count)
             IN  [turn_metrics |-> EmptyTurnMetrics,
                  self |-> IF sb /\ outcome # "raise"
                           THEN [self EXCEPT !.turn_count = @ + 1] ELSE self,
                  fx |-> IF ~sb
                         THEN [NoEffects EXCEPT !.warnings = 1]
                         ELSE [NoEffects EXCEPT
                                  !.inserts = << record >>,
                                  !.written = IF outcome = "data"
                                              THEN << record >> ELSE << >>,
                                  !.warnings = IF outcome = "nodata" THEN 1 ELSE 0,
                                  !.errors = IF outcome = "raise" THEN 1 ELSE 0]]
        ELSE [turn_metrics |-> tm, self |-> self,
              fx |-> NoEffects]

---------------------------------------------------------------------------
(* class MenuCache and fetch_menu_for_prompt, lines 457-569.  A text is the  *)
(* sequence of its lines, and the empty string is the empty sequence.        *)

\* _menu_cache = MenuCache(ttl_seconds=300), line 501
TTL == 300

EmptyText == << >>

\* MenuCache.__init__, lines 460-464
NewMenuCache(ttl_seconds) ==
    [ttl_seconds |-> ttl_seconds, _cache |-> EmptyText, _cached_at |-> 0,
     _lock |-> FALSE]

\* MenuCache.get with the age compared by >=, so that an entry of age exactly TTL
\* counts as expired
MenuCache_get_expiring_at_ttl(self, t) ==
    IF self._cache = EmptyText
    THEN None
    ELSE IF t - self._cached_at >= self.ttl_seconds
    THEN None
    ELSE Some(self._cache)

\* MenuCache.get, lines 466-473, time.time() reading t
MenuCache_get(self, t) ==
    IF self._cache = EmptyText
    THEN None
    ELSE IF t - self._cached_at > self.ttl_seconds
    THEN None
    ELSE Some(self._cache)

\* MenuCache.set storing the text without the time of the call
MenuCache_set_keeping_timestamp(self, menu_text, t) ==
    [self EXCEPT !._cache = menu_text]

\* MenuCache.set, lines 475-479
MenuCache_set(self, menu_text, t) ==
    [self EXCEPT !._cache = menu_text, !._cached_at = t]

\* MenuCache.invalidate leaving the entry as it is
MenuCache_invalidate_keeping_entry(self) == self

\* MenuCache.invalidate that marks the entry expired and keeps its text
MenuCache_invalidate_expiring_entry(self) == [self EXCEPT !._cached_at = 0]

\* MenuCache.invalidate, lines 481-485
MenuCache_invalidate(self) ==
    [self EXCEPT !._cache = EmptyText, !._cached_at = 0]

\* one line of the menu text: "[category]", "" or "- item_name: $price"
HeaderLine(cat) == [line |-> "header", text |-> cat, price |-> 0]

BlankLine == [line |-> "blank", text |-> "", price |-> 0]

ItemLine(item) == [line |-> "item", text |-> item.item_name, price |-> item.price]

\* the loop of lines 540-549 over the rows from position i on, current_cat being
\* the category of the row before (None before the first row)
RECURSIVE FormatRows(_, _, _)
FormatRows(data, i, current_cat) ==
    IF i > Len(data)
    THEN << >>
    ELSE LET cat == data[i].category
             head == IF Some(cat) # current_cat
                     THEN (IF current_cat # None THEN << BlankLine >> ELSE << >>)
                              \o << HeaderLine(cat) >>
                     ELSE << >>
         IN  head \o << ItemLine(data[i]) >> \o FormatRows(data, i + 1, Some(cat))

\* menu_text of lines 540-551
FormatMenu(data) == FormatRows(data, 1, None)

\* the answers of the menu_items query: rows (prices in cents), no rows, or an
\* exception
MenuRows ==
    {<< [item_name |-> "Margherita", price |-> 1250, category |-> "Pizza"],
        [item_name |-> "Cola", price |-> 300, category |-> "Drinks"] >>,
     << [item_name |-> "Margherita", price |-> 1400, category |-> "Pizza"],
        [item_name |-> "Pepperoni", price |-> 1500, category |-> "Pizza"] >>}

FetchOutcomes ==
    {[kind |-> "data", data |-> rows] : rows \in MenuRows}
        \cup {[kind |-> "data", data |-> << >>], [kind |-> "raise", data |-> << >>]}

\* a caller that is not in fetch_menu_for_prompt.  A caller is at a place in the
\* code (pc), and once it has left the function, result is what it was handed,
\* line the line of the return statement it left by, raised whether an
\* exception left the function instead
Idle == [pc |-> "idle", result |-> EmptyText, line |-> 0, raised |-> FALSE]

Returned(result, line) ==
    [pc |-> "returned", result |-> result, line |-> line, raised |-> FALSE]

\* the caller waits for supabase...execute(), line 533
Fetching == [pc |-> "fetching", result |-> EmptyText, line |-> 533, raised |-> FALSE]

\* fetch_menu_for_prompt going to the query whatever the cache holds
fetch_menu_for_prompt_begin_always_fetching(self, t, force_refresh, sb) ==
    [cache |-> self,
     caller |-> IF ~sb THEN Returned(EmptyText, 526) ELSE Fetching]

\* fetch_menu_for_prompt up to the query, lines 515-533: the caller afterwards
\* and the cache, which these lines only read
fetch_menu_for_prompt_begin(self, t, force_refresh, sb) ==
    LET cached == IF force_refresh THEN None ELSE MenuCache_get(self, t)
    IN  [cache |-> self,
         caller |-> IF cached # None /\ cached[1] # EmptyText
                    THEN Returned(cached[1], 522)
                    ELSE IF ~sb
                    THEN Returned(EmptyText, 526)
                    ELSE Fetching]

\* fetch_menu_for_prompt without its try/except: the exception of the query
\* leaves the function
fetch_menu_for_prompt_complete_unguarded(self, t, outcome) ==
    IF outcome.kind = "raise"
    THEN [cache |-> self,
          caller |-> [pc |-> "raised", result |-> EmptyText, line |-> 533,
                      raised |-> TRUE]]
    ELSE IF outcome.data = << >>
    THEN [cache |-> self, caller |-> Returned(EmptyText, 537)]
    ELSE [cache |-> MenuCache_set(self, FormatMenu(outcome.data), t),
          caller |-> Returned(FormatMenu(outcome.data), 557)]

\* fetch_menu_for_prompt storing anew the stale text it serves when the query
\* raised
fetch_menu_for_prompt_complete_renewing_stale(self, t, outcome) ==
    IF outcome.kind = "raise"
    THEN [cache |-> IF self._cache # EmptyText
                    THEN MenuCache_set(self, self._cache, t) ELSE self,
          caller |-> IF self._cache # EmptyText
                     THEN Returned(self._cache, 562)
                     ELSE Returned(EmptyText, 564)]
    ELSE IF outcome.data = << >>
    THEN [cache |-> self, caller |-> Returned(EmptyText, 537)]
    ELSE [cache |-> MenuCache_set(self, FormatMenu(outcome.data), t),
          caller |-> Returned(FormatMenu(outcome.data), 557)]

\* fetch_menu_for_prompt from the answer of the query on, lines 535-564: the
\* caller and the cache afterwards
fetch_menu_for_prompt_complete(self, t, outcome) ==
    IF outcome.kind = "raise"
    THEN [cache |-> self,
          caller |-> IF self._cache # EmptyText
                     THEN Returned(self._cache, 562)
                     ELSE Returned(EmptyText, 564)]
    ELSE IF outcome.data = << >>
    THEN [cache |-> self, caller |-> Returned(EmptyText, 537)]
    ELSE [cache |-> MenuCache_set(self, FormatMenu(outcome.data), t),
          caller |-> Returned(FormatMenu(outcome.data), 557)]

---------------------------------------------------------------------------
(* Inputs of the handlers. *)

\* the transcripts and responses handed to on_stt_complete and on_llm_complete
Transcripts == {"two pizzas"}

Responses == {"ok"}

\* (tokens_in, tokens_out) of on_llm_complete
LlmTokens == {<< 12, 7 >>}

\* the metric objects handed to log_metrics
LogMetricEvents ==
    {[Metric("STTMetrics") EXCEPT !.duration = Some(1)],
     [Metric("LLMMetrics") EXCEPT !.ttft = Some(1)],
     [Metric("TTSMetrics") EXCEPT !.ttfb = Some(1)],
     Metric("RealtimeModelMetrics")}

---------------------------------------------------------------------------
(* The call: the state after entrypoint has set the tracker up, and one     *)
(* action per handler.  A handler that reads time.perf_counter() reads a    *)
(* value t that is not before the last reading.                             *)

\* the menu cache left alone: no caller ever runs
CacheIdle ==
    /\ cache = NewMenuCache(TTL)
    /\ wall = WallStart
    /\ callers = [c \in 1 .. MaxCallers |-> Idle]
    /\ entry = None

\* the agent has taken no order and no function tool has run: current_order as
\* RestaurantAgent.__init__ leaves it (line 581), no order on the context
OrdersIdle ==
    /\ current_order = << >>
    /\ order = << >>
    /\ reply = << >>

\* the process serves the one call of lt and turn_metrics, no insert is
\* followed to its return, and the rows of the table are not followed
ProcessIdle ==
    /\ sessions = << >>
    /\ outstanding = << >>
    /\ latency_metrics = << >>
    /\ OrdersIdle

\* a call in a process whose Supabase client is configured
InitTracker ==
    /\ lt = EntrypointTracker
    /\ turn_metrics = EmptyTurnMetrics
    /\ now = 1
    /\ supabase = TRUE
    /\ fx = NoEffects
    /\ CacheIdle
    /\ ProcessIdle

Instants == now .. MaxNow

Handled(self, t, effects) ==
    /\ now' = t
    /\ lt' = self
    /\ fx' = effects
    /\ UNCHANGED << turn_metrics, supabase, cacheVars, processVars >>

OnUserStartedSpeaking ==
    \E t \in Instants :
        LET r == on_user_started_speaking(lt, t)
        IN  Handled(r.self, t, r.fx)

OnUserStoppedSpeaking ==
    \E t \in Instants : Handled(on_user_stopped_speaking(lt, t), t, NoEffects)

OnSttComplete ==
    \E t \in Instants, transcript \in Transcripts :
        Handled(on_stt_complete(lt, t, transcript), t, NoEffects)

OnLlmFirstToken ==
    \E t \in Instants : Handled(on_llm_first_token(lt, t), t, NoEffects)

OnLlmComplete ==
    \E t \in Instants, response \in Responses, tokens \in LlmTokens :
        Handled(on_llm_complete(lt, t, response, tokens[1], tokens[2]), t, NoEffects)

OnTtsFirstByte ==
    \E t \in Instants : Handled(on_tts_first_byte(lt, t), t, NoEffects)

OnAgentStartedSpeaking ==
    \E t \in Instants : Handled(on_agent_started_speaking(lt, t), t, NoEffects)

LogMetrics ==
    \E t \in Instants, ev \in LogMetricEvents :
        Handled(log_metrics(lt, ev, t), t, NoEffects)

OnAgentStoppedSpeaking ==
    \E t \in Instants, outcome \in InsertOutcomes :
        LET r == on_agent_stopped_speaking(lt, t, supabase, outcome)
        IN  /\ lt.turn_count < MaxTurns
            /\ Handled(r.self, t, r.fx)

NextTracker ==
    \/ OnUserStartedSpeaking
    \/ OnUserStoppedSpeaking
    \/ OnSttComplete
    \/ OnLlmFirstToken
    \/ OnLlmComplete
    \/ OnTtsFirstByte
    \/ OnAgentStartedSpeaking
    \/ OnAgentStoppedSpeaking
    \/ LogMetrics

SpecTracker == InitTracker /\ [][NextTracker]_vars

---------------------------------------------------------------------------
(* The session as entrypoint wires it: the metrics_collected handler, which *)
(* stores a row and counts a turn at every TTSMetrics event, beside the     *)
(* tracker's own start of a turn and flush.                                 *)

\* the metric objects handed to on_metrics_collected
CollectedEvents ==
    {[Metric("STTMetrics") EXCEPT !.audio_duration = Some(3)],
     [Metric("LLMMetrics") EXCEPT !.ttft = Some(1), !.duration = Some(2),
                                  !.prompt_tokens = Some(30),
                                  !.completion_tokens = Some(9)],
     [Metric("TTSMetrics") EXCEPT !.ttfb = Some(1)],
     Metric("TTSMetrics"),
     Metric("VADMetrics")}

\* a call in a process whose Supabase client is configured or not
InitEntry ==
    /\ lt = EntrypointTracker
    /\ turn_metrics = EmptyTurnMetrics
    /\ now = 1
    /\ supabase \in BOOLEAN
    /\ fx = NoEffects
    /\ CacheIdle
    /\ ProcessIdle

OnMetricsCollectedWith(ev, outcome) ==
    LET r == on_metrics_collected(turn_metrics, lt, ev, supabase, outcome)
    IN  /\ lt.turn_count < MaxTurns
        /\ turn_metrics' = r.turn_metrics
        /\ lt' = r.self
        /\ fx' = r.fx
        /\ UNCHANGED << now, supabase, cacheVars, processVars >>

OnMetricsCollected ==
    \E ev \in CollectedEvents, outcome \in InsertOutcomes :
        OnMetricsCollectedWith(ev, outcome)

NextEntry ==
    \/ OnMetricsCollected
    \/ OnUserStartedSpeaking
    \/ OnAgentStartedSpeaking
    \/ OnAgentStoppedSpeaking

SpecEntry == InitEntry /\ [][NextEntry]_vars

---------------------------------------------------------------------------
(* The tracker fed by routed metric events beside the direct callbacks of   *)
(* the language model and of speech synthesis.                              *)

\* the metric objects the router hands to log_metrics: language-model events
\* with and without ttft and token counts, a synthesis event, a transcription
\* event, voice-activity and end-of-utterance events, and objects of a class
\* log_metrics does not know, with and without a timestamp; two events carry
\* a timestamp, and the two timestamps differ
RoutedEvents ==
    {[Metric("LLMMetrics") EXCEPT !.ttft = Some(1), !.tokens_in = Some(30),
                                  !.tokens_out = Some(9)],
     [Metric("LLMMetrics") EXCEPT !.tokens_in = Some(40), !.tokens_out = Some(11)],
     [Metric("LLMMetrics") EXCEPT !.ttft = Some(1)],
     [Metric("TTSMetrics") EXCEPT !.ttfb = Some(1)],
     [Metric("STTMetrics") EXCEPT !.duration = Some(1), !.audio_duration = Some(3)],
     Metric("VADMetrics"),
     Metric("EOUMetrics"),
     Metric("RealtimeModelMetrics"),
     [Metric("RealtimeModelMetrics") EXCEPT !.timestamp = Some(1700000000)],
     [Metric("VADMetrics") EXCEPT !.timestamp = Some(1700000005)]}

\* the router hands an event to log_metrics
LogRoutedMetrics ==
    \E t \in Instants, ev \in RoutedEvents :
        Handled(log_metrics(lt, ev, t), t, [NoEffects EXCEPT !.routed = Some(ev)])

\* on_llm_complete(response): tokens_in and tokens_out take their default, 0
OnLlmCompleteDefaultTokens ==
    \E t \in Instants, response \in Responses :
        Handled(on_llm_complete(lt, t, response, 0, 0), t, NoEffects)

NextRouted ==
    \/ OnUserStartedSpeaking
    \/ OnLlmFirstToken
    \/ OnLlmComplete
    \/ OnLlmCompleteDefaultTokens
    \/ OnTtsFirstByte
    \/ LogRoutedMetrics
    \/ OnAgentStoppedSpeaking

SpecRouted == InitTracker /\ [][NextRouted]_vars

---------------------------------------------------------------------------
(* Claims about LatencyTracker.  A claim about what one call of a handler   *)
(* does is stated of every reachable state and of every input the handler's *)
(* action draws: the action applies the same operator to the same inputs.   *)

\* the value of key k of a row, None when the row has no such key
Field(row, k) == IF k \in DOMAIN row THEN Some(row[k]) ELSE None

\* the value every field of the turn has after _reset_turn_state
Unset(f) == NewLatencyTracker[f]

\* C1: a flush by on_agent_stopped_speaking of a turn with user_speech_end and
\* agent_speech_start set persists ttfb_ms = (agent_speech_start -
\* user_speech_end) * 1000, and the same turn with any other turn_start and
\* user_speech_start persists the same ttfb_ms.
C1_TtfbExcludesUserSpeech ==
    (Truthy(lt.turn_start) /\ Truthy(lt.user_speech_end) /\ Truthy(lt.agent_speech_start))
        => \A t \in Instants, outcome \in {"data"} :
              LET r == on_agent_stopped_speaking(lt, t, supabase, outcome)
              IN  /\ Len(r.fx.inserts) = 1
                  /\ Field(r.fx.inserts[1], "ttfb_ms")
                        = Some((lt.agent_speech_start[1] - lt.user_speech_end[1]) * 1000)
                  /\ \A t0 \in 1 .. MaxNow :
                        LET other == [lt EXCEPT !.turn_start = Some(t0),
                                                !.user_speech_start = Some(t0)]
                            q == on_agent_stopped_speaking(other, t, supabase, outcome)
                        IN  Field(q.fx.inserts[1], "ttfb_ms")
                                = Field(r.fx.inserts[1], "ttfb_ms")

\* C1 witness: a row was persisted whose ttfb_ms is set and differs from its
\* end_to_end_ms, the user having spoken for a second
C1_Witness ==
    /\ fx.store_calls = 1
    /\ fx.inserts # << >>
    /\ Field(fx.inserts[1], "ttfb_ms") = Some(0)
    /\ Field(fx.inserts[1], "end_to_end_ms") = Some(1000)
    /\ Field(fx.inserts[1], "user_speech_duration_ms") = Some(1000)

\* C3: on_user_started_speaking hands nothing to the store and leaves turn_count
\* and metrics_history as they are, also when a turn is in flight.
C3_StartPersistsNothing ==
    \A t \in Instants :
        LET r == on_user_started_speaking(lt, t)
        IN  /\ r.fx.store_calls = 0
            /\ r.fx.inserts = << >>
            /\ r.self.turn_count = lt.turn_count
            /\ r.self.metrics_history = lt.metrics_history

\* C3 witness: on_user_started_speaking has just replaced the start of a turn in
\* flight whose transcript had arrived, and nothing went to the store
C3_Witness ==
    /\ fx.superseded
    /\ lt.turn_start = Some(now)
    /\ Truthy(lt.stt_end)
    /\ fx.store_calls = 0
    /\ fx.inserts = << >>

\* C4 (as claimed): right after on_user_started_speaking has found a turn in
\* flight, every field of the turn other than turn_start and user_speech_start
\* is unset.
C4_StartDiscardsPreviousTurn ==
    fx.superseded
        => \A f \in TurnFields \ {"turn_start", "user_speech_start"} : lt[f] = Unset(f)

\* C5: on_agent_stopped_speaking with turn_start set calls the store once (one
\* row when the client is configured), adds 1 to turn_count, and leaves every
\* field of the turn unset.
C5_FlushStoresCountsResets ==
    Truthy(lt.turn_start)
        => \A t \in Instants, outcome \in InsertOutcomes :
              LET r == on_agent_stopped_speaking(lt, t, supabase, outcome)
              IN  /\ r.fx.store_calls = 1
                  /\ Len(r.fx.inserts) = 1
                  /\ r.self.turn_count = lt.turn_count + 1
                  /\ \A f \in TurnFields : r.self[f] = Unset(f)

\* C5 witness: a turn has been flushed: one row went to the store, the turn is
\* counted and the fields of the turn are unset
C5_Witness ==
    /\ fx.store_calls = 1
    /\ Len(fx.inserts) = 1
    /\ Field(fx.inserts[1], "turn_number") = Some(lt.turn_count)
    /\ lt.turn_count = MaxTurns
    /\ \A f \in TurnFields : lt[f] = Unset(f)

\* C7: whatever the insert does, no exception leaves the flush and the tracker
\* afterwards is the one a successful write leaves.
C7_FailingWriteContained ==
    Truthy(lt.turn_start)
        => \A t \in Instants, outcome \in InsertOutcomes :
              LET r == on_agent_stopped_speaking(lt, t, supabase, outcome)
              IN  /\ ~r.fx.raised
                  /\ r.self = on_agent_stopped_speaking(lt, t, supabase, "data").self
                  /\ \A f \in TurnFields : r.self[f] = Unset(f)

\* C7 witness: an insert has raised, the error was logged and the turn is reset
C7_Witness ==
    /\ fx.store_calls = 1
    /\ fx.errors = 1
    /\ ~fx.raised
    /\ lt.turn_count >= 1
    /\ \A f \in TurnFields : lt[f] = Unset(f)

---------------------------------------------------------------------------
(* Claims about the two storage sites of a session. *)

\* a step of on_agent_stopped_speaking that finds turn_start set
TrackerFlush == OnAgentStoppedSpeaking /\ Truthy(lt.turn_start)

\* a step of on_metrics_collected for a TTSMetrics event: "this is last in
\* pipeline, so store everything" (line 1051)
CollectedFlush ==
    \E ev \in CollectedEvents, outcome \in InsertOutcomes :
        ev.kind = "TTSMetrics" /\ OnMetricsCollectedWith(ev, outcome)

\* C2 (as claimed): while turn_start is unset, no handler hands a row to the
\* store.
C2_NoTurnNoRecord ==
    [][~Truthy(lt.turn_start) => fx'.inserts = << >>]_vars

\* C6 (as claimed): every completed turn adds 1 to turn_count and one entry to
\* metrics_history, whatever the insert does.
C6_CountersAdvanceWhateverTheWrite ==
    [][(TrackerFlush \/ CollectedFlush)
       => /\ lt'.turn_count = lt.turn_count + 1
          /\ Len(lt'.metrics_history) = Len(lt.metrics_history) + 1]_vars

\* C8 (as claimed): with the client not configured a flush attempts no insert,
\* logs one warning, and turn_count and metrics_history advance.
C8_StoreDownFlush ==
    [][(~supabase /\ (TrackerFlush \/ CollectedFlush))
       => /\ fx'.inserts = << >>
          /\ fx'.warnings = 1
          /\ lt'.turn_count = lt.turn_count + 1
          /\ Len(lt'.metrics_history) = Len(lt.metrics_history) + 1]_vars

---------------------------------------------------------------------------
(* The menu cache of the process and the callers of fetch_menu_for_prompt.  *)
(* supabase...execute() (line 533) is blocking network I/O: callers on      *)
(* other threads run while one waits for it.  _lock (line 464) is assigned  *)
(* in __init__ and read or written nowhere else.                            *)

\* the readings of time.time() the model follows: in each period the start, and
\* TTL - 1, TTL and TTL + 1 seconds after it
WallTimes ==
    {WallStart + k * (TTL + 1) + d :
        k \in 0 .. MaxPeriods - 1, d \in {0, TTL - 1, TTL, TTL + 1}}

InitCache ==
    /\ lt = EntrypointTracker
    /\ turn_metrics = EmptyTurnMetrics
    /\ now = 1
    /\ supabase \in BOOLEAN
    /\ fx = NoEffects
    /\ CacheIdle
    /\ ProcessIdle

\* time passes
WallTick ==
    /\ \E t \in WallTimes : t > wall /\ wall' = t
    /\ UNCHANGED << trackerVars, cache, callers, entry, processVars >>

\* a caller enters fetch_menu_for_prompt and runs to its return or to the query
FetchBegin ==
    \E c \in DOMAIN callers, force_refresh \in BOOLEAN :
        LET r == fetch_menu_for_prompt_begin(cache, wall, force_refresh, supabase)
        IN  /\ callers[c].pc = "idle"
            /\ cache' = r.cache
            /\ callers' = [callers EXCEPT ![c] = r.caller]
            /\ UNCHANGED << trackerVars, wall, entry, processVars >>

\* the query of a caller answers and the caller runs to its return
FetchComplete ==
    \E c \in DOMAIN callers, outcome \in FetchOutcomes :
        LET r == fetch_menu_for_prompt_complete(cache, wall, outcome)
        IN  /\ callers[c].pc = "fetching"
            /\ cache' = r.cache
            /\ callers' = [callers EXCEPT ![c] = r.caller]
            /\ entry' = IF r.caller.line = 557
                        THEN Some([value |-> r.cache._cache, cachedAt |-> wall])
                        ELSE entry
            /\ UNCHANGED << trackerVars, wall, processVars >>

\* the value returned is taken and the caller may call again
FetchReturn ==
    \E c \in DOMAIN callers :
        /\ callers[c].pc = "returned"
        /\ callers' = [callers EXCEPT ![c] = Idle]
        /\ UNCHANGED << trackerVars, cache, wall, entry, processVars >>

\* invalidate_menu_cache, lines 567-569
InvalidateMenuCache ==
    /\ cache' = MenuCache_invalidate(cache)
    /\ entry' = None
    /\ UNCHANGED << trackerVars, wall, callers, processVars >>

NextCache ==
    \/ WallTick
    \/ FetchBegin
    \/ FetchComplete
    \/ FetchReturn
    \/ InvalidateMenuCache

SpecCache == InitCache /\ [][NextCache]_vars

\* the callers waiting for the answer of their query
InFlight == {c \in DOMAIN callers : callers[c].pc = "fetching"}

\* C9 (as claimed): at no time are two backing fetches of the menu in flight.
C9_SingleFlight == Cardinality(InFlight) <= 1

\* C10: get() returns the value set() last stored when there is one since the
\* last invalidate() and it is at most TTL seconds old, and None otherwise.
C10_GetWithinTtl ==
    MenuCache_get(cache, wall)
        = IF entry # None /\ wall - entry[1].cachedAt <= TTL
          THEN Some(entry[1].value)
          ELSE None

\* C10 witness: an entry of age exactly TTL, which get() still returns
C10_Witness ==
    /\ entry # None
    /\ wall - entry[1].cachedAt = TTL
    /\ MenuCache_get(cache, wall) = Some(entry[1].value)

\* the answers of the query with which a refresh fails: an exception, or no rows
FailedOutcomes == {o \in FetchOutcomes : o.kind = "raise" \/ o.data = << >>}

\* the answers with rows
RowsOutcomes == FetchOutcomes \ FailedOutcomes

\* the readings of time.time() from the present on
LaterWallTimes == {t \in WallTimes : t >= wall}

\* C11 (as claimed): a refresh that fails while the cache holds a text, however
\* old, returns that text and raises nothing.
C11_FailedRefreshServesStale ==
    (cache._cache # EmptyText /\ InFlight # {})
        => \A o \in FailedOutcomes :
              LET r == fetch_menu_for_prompt_complete(cache, wall, o)
              IN  r.caller.result = cache._cache /\ ~r.caller.raised

\* C12: with nothing cached, a refresh that fails (client not configured, query
\* raising, query without rows) returns the empty text and raises nothing.
C12_ColdFailureReturnsEmpty ==
    cache._cache = EmptyText
        => /\ \A force_refresh \in BOOLEAN :
                ~supabase
                    => fetch_menu_for_prompt_begin(cache, wall, force_refresh, supabase).caller
                           = Returned(EmptyText, 526)
           /\ \A o \in FailedOutcomes :
                LET r == fetch_menu_for_prompt_complete(cache, wall, o)
                IN  /\ r.caller.pc = "returned"
                    /\ r.caller.result = EmptyText
                    /\ ~r.caller.raised
                    /\ r.cache = cache

\* C12 witness: nothing was ever cached and a caller whose query raised has
\* returned the empty text by the last line of the except block
C12_Witness ==
    /\ entry = None
    /\ cache = NewMenuCache(TTL)
    /\ \E c \in DOMAIN callers :
          callers[c] = Returned(EmptyText, 564)

\* C13: a fetch that answers with rows stores the formatted menu with the time
\* of the call of set(), returns it, and get() returns it up to TTL seconds later.
C13_RefreshReplacesEntry ==
    \A o \in RowsOutcomes :
        LET r == fetch_menu_for_prompt_complete(cache, wall, o)
        IN  /\ r.cache._cache = FormatMenu(o.data)
            /\ r.cache._cached_at = wall
            /\ r.caller = Returned(FormatMenu(o.data), 557)
            /\ \A t \in LaterWallTimes :
                  t - wall <= TTL => MenuCache_get(r.cache, t) = Some(FormatMenu(o.data))

\* C13 witness: an expired entry has been replaced: the entry is of this instant,
\* more than TTL after the first reading of the clock, the caller that fetched
\* returned it, and get() returns it
C13_Witness ==
    /\ entry # None
    /\ entry[1].cachedAt = wall
    /\ wall > WallStart + TTL
    /\ \E c \in DOMAIN callers : callers[c] = Returned(entry[1].value, 557)
    /\ MenuCache_get(cache, wall) = Some(entry[1].value)

\* C14: while the entry is at most TTL seconds old, a call without force_refresh
\* returns the cached text at line 522, issues no query and leaves the cache as
\* it is.
C14_FreshHitNoFetch ==
    (entry # None /\ wall - entry[1].cachedAt <= TTL)
        => LET r == fetch_menu_for_prompt_begin(cache, wall, FALSE, supabase)
           IN  /\ r.caller = Returned(entry[1].value, 522)
               /\ r.cache = cache
               /\ r.cache._cache = entry[1].value
               /\ r.cache._cached_at = entry[1].cachedAt

\* C14 witness: a caller was served the entry from the cache when the entry was
\* exactly TTL seconds old, and no query is in flight
C14_Witness ==
    /\ entry # None
    /\ wall - entry[1].cachedAt = TTL
    /\ InFlight = {}
    /\ \E c \in DOMAIN callers : callers[c] = Returned(entry[1].value, 522)

\* C15 (as claimed): after invalidate() get() returns None and the next call of
\* fetch_menu_for_prompt issues a query.
C15_InvalidateForcesRefetch ==
    LET c2 == MenuCache_invalidate(cache)
    IN  \A t \in LaterWallTimes :
            /\ MenuCache_get(c2, t) = None
            /\ \A force_refresh \in BOOLEAN :
                  fetch_menu_for_prompt_begin(c2, t, force_refresh, supabase).caller
                      = Fetching

\* C15 (amended): after invalidate() get() returns None, and the next call of
\* fetch_menu_for_prompt issues a query when the Supabase client is configured
\* and returns the empty text without a query when it is not.
C15_InvalidateForcesRefetchWhenConfigured ==
    LET c2 == MenuCache_invalidate(cache)
    IN  \A t \in LaterWallTimes :
            /\ MenuCache_get(c2, t) = None
            /\ \A force_refresh \in BOOLEAN :
                  fetch_menu_for_prompt_begin(c2, t, force_refresh, supabase).caller
                      = IF supabase THEN Fetching ELSE Returned(EmptyText, 526)

\* C15 witness: an entry stored at this instant has been invalidated: the caller
\* that stored it holds its text, get() returns None, and another caller waits
\* for its query
C15_Witness ==
    /\ entry = None
    /\ cache = NewMenuCache(TTL)
    /\ wall = WallStart
    /\ MenuCache_get(cache, wall) = None
    /\ \E c \in DOMAIN callers : callers[c].line = 557
    /\ \E c \in DOMAIN callers : callers[c] = Fetching

---------------------------------------------------------------------------
(* Claims about routed metric events. *)

\* log_metrics has just been handed an event
JustRouted == fx.routed # None

\* the row a flush at this instant would hand to insert(), the insert succeeding
FlushedRow(self) == on_agent_stopped_speaking(self, now, supabase, "data").fx.inserts[1]

\* C16 (as claimed): the tokens of the row persisted for a turn are those of the
\* language-model event routed last in the turn, also when on_llm_complete is
\* called with its default token arguments after the event.
C16_TokensOfLastRoutedEvent ==
    (/\ JustRouted
     /\ fx.routed[1].kind = "LLMMetrics"
     /\ Truthy(fx.routed[1].tokens_in)
     /\ Truthy(fx.routed[1].tokens_out)
     /\ Truthy(lt.turn_start))
        => /\ Field(FlushedRow(lt), "llm_tokens_in") = fx.routed[1].tokens_in
           /\ Field(FlushedRow(lt), "llm_tokens_out") = fx.routed[1].tokens_out
           /\ LET completed == on_llm_complete(lt, now, "ok", 0, 0)
              IN  /\ Field(FlushedRow(completed), "llm_tokens_in") = fx.routed[1].tokens_in
                  /\ Field(FlushedRow(completed), "llm_tokens_out") = fx.routed[1].tokens_out

\* C17: a routed event leaves llm_first_token and tts_first_byte as they are
\* when they are set, and sets the one of its kind to the time of the call when
\* it is unset and the event carries ttft (ttfb).
C17_FirstWriterWins ==
    \A t \in Instants, ev \in RoutedEvents :
        LET r == log_metrics(lt, ev, t)
        IN  /\ Truthy(lt.llm_first_token) => r.llm_first_token = lt.llm_first_token
            /\ Truthy(lt.tts_first_byte) => r.tts_first_byte = lt.tts_first_byte
            /\ r.llm_first_token # lt.llm_first_token
                  => /\ ev.kind = "LLMMetrics" /\ Truthy(ev.ttft)
                     /\ r.llm_first_token = Some(t)
            /\ r.tts_first_byte # lt.tts_first_byte
                  => /\ ev.kind = "TTSMetrics" /\ Truthy(ev.ttfb)
                     /\ r.tts_first_byte = Some(t)
            /\ (ev.kind = "LLMMetrics" /\ Truthy(ev.ttft) /\ ~Truthy(lt.llm_first_token))
                  => r.llm_first_token = Some(t)
            /\ (ev.kind = "TTSMetrics" /\ Truthy(ev.ttfb) /\ ~Truthy(lt.tts_first_byte))
                  => r.tts_first_byte = Some(t)

\* C17 witness: a language-model event with ttft has just been routed at a later
\* instant than the one llm_first_token holds
C17_Witness ==
    /\ JustRouted
    /\ fx.routed[1].kind = "LLMMetrics"
    /\ Truthy(fx.routed[1].ttft)
    /\ Truthy(lt.turn_start)
    /\ Truthy(lt.llm_first_token)
    /\ lt.llm_first_token[1] < now

\* C18 (as claimed): an event routed after the flush of a turn and before the
\* next turn starts sets neither llm_first_token nor tts_first_byte of the next
\* turn nor the tokens of its row.
C18_LateEventStaysOutOfNextTurn ==
    (JustRouted /\ lt.turn_count >= 1 /\ ~Truthy(lt.turn_start))
        => LET next == on_user_started_speaking(lt, now).self
           IN  /\ next.llm_first_token = None
               /\ next.tts_first_byte = None
               /\ Field(FlushedRow(next), "llm_tokens_in") = None
               /\ Field(FlushedRow(next), "llm_tokens_out") = None

\* the events of a class log_metrics does not know
UnknownEvents ==
    {ev \in RoutedEvents :
        ev.kind \notin {"STTMetrics", "LLMMetrics", "TTSMetrics", "VADMetrics", "EOUMetrics"}}

\* the timestamps of the pipeline and the token counts
TimingAndTokenFields == TurnFields \ {"transcript", "response", "metric_timestamp"}

\* C20 (as claimed): an event of an unknown class changes nothing of the tracker,
\* and voice-activity and end-of-utterance events change no timing or token
\* field.
C20_UnknownEventDropped ==
    \A t \in Instants, ev \in RoutedEvents :
        LET r == log_metrics(lt, ev, t)
        IN  /\ ev \in UnknownEvents => r = lt
            /\ ev.kind \in {"VADMetrics", "EOUMetrics"}
                  => \A f \in TimingAndTokenFields : r[f] = lt[f]

\* C20 (amended): an event of an unknown class changes nothing of the tracker but
\* metric_timestamp, which takes the timestamp of the event when it has one, and
\* voice-activity and end-of-utterance events change no timing or token field.
C20_UnknownEventOnlyStamps ==
    \A t \in Instants, ev \in RoutedEvents :
        LET r == log_metrics(lt, ev, t)
        IN  /\ ev \in UnknownEvents
                  => /\ [r EXCEPT !.metric_timestamp = lt.metric_timestamp] = lt
                     /\ r.metric_timestamp
                            = IF Truthy(ev.timestamp) THEN ev.timestamp
                              ELSE lt.metric_timestamp
            /\ ev.kind \in {"VADMetrics", "EOUMetrics"}
                  => \A f \in TimingAndTokenFields : r[f] = lt[f]

\* C20 witness: an object of an unknown class with a timestamp has just been
\* routed in a turn in flight: the turn holds what it held and the timestamp
C20_Witness ==
    /\ JustRouted
    /\ fx.routed[1] \in UnknownEvents
    /\ Truthy(fx.routed[1].timestamp)
    /\ lt.metric_timestamp = fx.routed[1].timestamp
    /\ Truthy(lt.turn_start)
    /\ Truthy(lt.llm_first_token)
    /\ lt.llm_tokens_in = 30

---------------------------------------------------------------------------
(* The audio duration of transcription events. *)

\* the audio_duration a transcription event may carry (None: no such attribute)
AudioDurations == {None, Some(0), Some(3), Some(5)}

SttEvent(d) == [Metric("STTMetrics") EXCEPT !.duration = Some(1), !.audio_duration = d]

\* the keys of a row that hold a latency
LatencyKeys ==
    {"ttfb_ms", "end_to_end_ms", "stt_duration_ms", "llm_ttfb_ms", "llm_total_ms",
     "tts_ttfb_ms"}

\* the dict turn_metrics without regard to the time the user spoke
BesidesSpeech(tm) == [tm EXCEPT !.user_speech_duration_ms = None]

\* the events that stand for ev in a run that differs in audio durations only
AudioVariants(ev) ==
    IF ev.kind = "STTMetrics" THEN {SttEvent(d) : d \in AudioDurations} ELSE {ev}

\* C19: two runs that differ only in the audio_duration of transcription events
\* stay equal in everything but user_speech_duration_ms: from two dicts that
\* differ in that key alone, one more event (a transcription event with any two
\* audio durations, or the same event of another kind) gives equal trackers,
\* dicts that differ in that key alone, and rows equal in every latency key;
\* log_metrics does not read audio_duration at all.
C19_AudioDurationIsSpeechOnly ==
    \A u \in {None, Some(3000), Some(5000)}, d \in AudioDurations,
       outcome \in InsertOutcomes :
        \A ev1 \in CollectedEvents \cup {SttEvent(d)} :
            \A ev2 \in AudioVariants(ev1) :
                LET other == [turn_metrics EXCEPT !.user_speech_duration_ms = u]
                    r1 == on_metrics_collected(turn_metrics, lt, ev1, supabase, outcome)
                    r2 == on_metrics_collected(other, lt, ev2, supabase, outcome)
                IN  /\ r1.self = r2.self
                    /\ BesidesSpeech(r1.turn_metrics) = BesidesSpeech(r2.turn_metrics)
                    /\ Len(r1.fx.inserts) = Len(r2.fx.inserts)
                    /\ \A i \in DOMAIN r1.fx.inserts, k \in LatencyKeys :
                          Field(r1.fx.inserts[i], k) = Field(r2.fx.inserts[i], k)
                    /\ log_metrics(lt, ev1, now) = log_metrics(lt, ev2, now)

\* C19 witness: a row has been stored for a turn in which the user spoke for
\* 3000 ms; its ttfb_ms is the 1000 ms of the language model plus the 1000 ms
\* of synthesis
C19_Witness ==
    /\ Len(fx.inserts) = 1
    /\ Field(fx.inserts[1], "user_speech_duration_ms") = Some(3000)
    /\ Field(fx.inserts[1], "ttfb_ms") = Some(2000)
    /\ Field(fx.inserts[1], "llm_ttfb_ms") = Some(1000)
    /\ Field(fx.inserts[1], "tts_ttfb_ms") = Some(1000)

---------------------------------------------------------------------------
(* Claims about the row of a flush. *)

\* the timestamp of an event as the row holds it, line 408
IsoFormat(ts) == IF Truthy(ts) THEN Some(<< "isoformat", ts[1] >>) ELSE None

\* C21: the metric_timestamp of a row is the timestamp of the last event since
\* the previous flush that carried one, and the key is missing when none did:
\* log_metrics replaces metric_timestamp by the timestamp of an event that has
\* one and leaves it otherwise, no direct callback touches it, the flush writes
\* it when it is set and unsets it.
C21_RowStampedByLastEvent ==
    /\ \A t \in Instants, ev \in RoutedEvents :
          LET r == log_metrics(lt, ev, t)
              flushed == on_agent_stopped_speaking(r, t, supabase, "data")
          IN  /\ r.metric_timestamp
                    = IF Truthy(ev.timestamp) THEN ev.timestamp ELSE lt.metric_timestamp
              /\ Truthy(r.turn_start)
                    => /\ Field(flushed.fx.inserts[1], "metric_timestamp")
                              = IsoFormat(r.metric_timestamp)
                       /\ flushed.self.metric_timestamp = None
    /\ \A t \in Instants :
          /\ on_user_started_speaking(lt, t).self.metric_timestamp = lt.metric_timestamp
          /\ on_llm_first_token(lt, t).metric_timestamp = lt.metric_timestamp
          /\ on_llm_complete(lt, t, "ok", 0, 0).metric_timestamp = lt.metric_timestamp
          /\ on_tts_first_byte(lt, t).metric_timestamp = lt.metric_timestamp

\* C21 witness: a turn has been flushed whose row holds the timestamp of the
\* voice-activity event, and the flush has unset metric_timestamp
C21_Witness ==
    /\ fx.store_calls = 1
    /\ Len(fx.inserts) = 1
    /\ Field(fx.inserts[1], "metric_timestamp") = Some(<< "isoformat", 1700000005 >>)
    /\ lt.metric_timestamp = None

\* the key of each derived duration in the row, with the two fields it spans
DerivedMetrics ==
    {<< "user_speech_duration_ms", "user_speech_start", "user_speech_end" >>,
     << "stt_duration_ms", "stt_start", "stt_end" >>,
     << "llm_ttfb_ms", "llm_start", "llm_first_token" >>,
     << "llm_total_ms", "llm_start", "llm_end" >>,
     << "tts_ttfb_ms", "tts_start", "tts_first_byte" >>,
     << "end_to_end_ms", "turn_start", "agent_speech_start" >>,
     << "agent_speech_duration_ms", "agent_speech_start", "agent_speech_end" >>,
     << "ttfb_ms", "user_speech_end", "agent_speech_start" >>}

\* C22: the row of a flush holds a derived duration exactly when both of its
\* instants are set at the flush, and then it is their difference in ms.
C22_DerivedIffBothEndpoints ==
    Truthy(lt.turn_start)
        => \A t \in Instants :
              LET ended == [lt EXCEPT !.agent_speech_end = Some(t)]
                  row == on_agent_stopped_speaking(lt, t, supabase, "data").fx.inserts[1]
              IN  \A m \in DerivedMetrics :
                      IF Truthy(ended[m[2]]) /\ Truthy(ended[m[3]])
                      THEN Field(row, m[1]) = Some((ended[m[3]][1] - ended[m[2]][1]) * 1000)
                      ELSE m[1] \notin DOMAIN row

\* C22 witness: a row was stored that holds the duration of transcription and
\* of the user's speech, and neither a duration of the language model nor ttfb_ms
C22_Witness ==
    /\ Len(fx.inserts) = 1
    /\ "stt_duration_ms" \in DOMAIN fx.inserts[1]
    /\ "user_speech_duration_ms" \in DOMAIN fx.inserts[1]
    /\ "llm_ttfb_ms" \notin DOMAIN fx.inserts[1]
    /\ "llm_total_ms" \notin DOMAIN fx.inserts[1]
    /\ "ttfb_ms" \notin DOMAIN fx.inserts[1]

---------------------------------------------------------------------------
(* Claims about the guards of the direct callbacks. *)

\* C24 (as claimed): once llm_first_token is set, a call of on_llm_first_token
\* leaves it as it is.
C24_LlmFirstTokenIdempotent ==
    (Truthy(lt.turn_start) /\ Truthy(lt.llm_first_token))
        => \A t \in Instants :
              on_llm_first_token(lt, t).llm_first_token = lt.llm_first_token

\* C25 (as claimed): once tts_first_byte is set, a call of on_tts_first_byte
\* leaves it as it is.
C25_TtsFirstByteIdempotent ==
    (Truthy(lt.turn_start) /\ Truthy(lt.tts_first_byte))
        => \A t \in Instants :
              on_tts_first_byte(lt, t).tts_first_byte = lt.tts_first_byte

\* C26 (as claimed): when no turn is in progress, or when the user's speech has
\* already ended in the turn, on_user_stopped_speaking assigns neither
\* user_speech_end nor stt_start.
C26_StopOnlyWhileSpeaking ==
    (~Truthy(lt.turn_start) \/ Truthy(lt.user_speech_end))
        => \A t \in Instants :
              LET r == on_user_stopped_speaking(lt, t)
              IN  /\ r.user_speech_end = lt.user_speech_end
                  /\ r.stt_start = lt.stt_start

\* C30 (as claimed): on_agent_stopped_speaking with turn_start unset leaves
\* every field of the turn unset.
C30_DegenerateTurnDiscarded ==
    ~Truthy(lt.turn_start)
        => \A t \in Instants, outcome \in InsertOutcomes :
              LET r == on_agent_stopped_speaking(lt, t, supabase, outcome)
              IN  /\ r.fx.inserts = << >>
                  /\ \A f \in TurnFields : r.self[f] = Unset(f)

---------------------------------------------------------------------------
(* The tracker from its constructor on: set_call_info and set_model_config  *)
(* are calls the owner of the tracker makes or does not make.               *)

\* a tracker as LatencyTracker() returns it
InitConfig ==
    /\ lt = NewLatencyTracker
    /\ turn_metrics = EmptyTurnMetrics
    /\ now = 1
    /\ supabase = TRUE
    /\ fx = NoEffects
    /\ CacheIdle
    /\ ProcessIdle

\* set_call_info(call_id, region) and set_call_info(call_id)
SetCallInfo ==
    \E region \in {None, Some("Australia")} :
        Handled(set_call_info(lt, Some(CallId), region), now, NoEffects)

\* set_model_config with the arguments of entrypoint, lines 988-995
SetModelConfig ==
    Handled(set_model_config(lt, EntrypointTracker.model_config), now, NoEffects)

NextConfig ==
    \/ SetCallInfo
    \/ SetModelConfig
    \/ OnUserStartedSpeaking
    \/ OnSttComplete
    \/ OnLlmComplete
    \/ LogMetrics
    \/ OnAgentStoppedSpeaking

SpecConfig == InitConfig /\ [][NextConfig]_vars

\* the keys of the model configuration in a row
ModelConfigKeys == DOMAIN DefaultModelConfig

\* C23 (as claimed): the row of a flush has no key for what was neither observed
\* nor supplied: call identity, region, token counts, lengths of transcript and
\* response, model configuration, event timestamp.
C23_UnsuppliedFieldsOmitted ==
    Truthy(lt.turn_start)
        => LET row == FlushedRow(lt)
           IN  /\ lt.call_id = None => "call_id" \notin DOMAIN row
               /\ lt.region = None => "region" \notin DOMAIN row
               /\ lt.llm_tokens_in = 0 => "llm_tokens_in" \notin DOMAIN row
               /\ lt.llm_tokens_out = 0 => "llm_tokens_out" \notin DOMAIN row
               /\ lt.transcript = "" => "transcript_length" \notin DOMAIN row
               /\ lt.response = "" => "response_length" \notin DOMAIN row
               /\ lt.metric_timestamp = None => "metric_timestamp" \notin DOMAIN row
               /\ lt.model_config = DefaultModelConfig
                     => ModelConfigKeys \cap DOMAIN row = {}

---------------------------------------------------------------------------
(* A session long enough for the summary of every fifth turn: turn_count is *)
(* advanced by the flush of the tracker (line 231) and by on_metrics_       *)
(* collected at a TTSMetrics event (line 1098).                             *)

\* on_agent_stopped_speaking, the insert succeeding
CountedFlush ==
    \E t \in Instants :
        LET r == on_agent_stopped_speaking(lt, t, supabase, "data")
        IN  /\ lt.turn_count < SummaryTurns
            /\ Handled(r.self, t, r.fx)

\* on_metrics_collected at a TTSMetrics event, the insert succeeding
CollectedTurn ==
    LET r == on_metrics_collected(turn_metrics, lt, Metric("TTSMetrics"), supabase, "data")
    IN  /\ lt.turn_count < SummaryTurns
        /\ turn_metrics' = r.turn_metrics
        /\ lt' = r.self
        /\ fx' = r.fx
        /\ UNCHANGED << now, supabase, cacheVars, processVars >>

NextSummary ==
    \/ OnUserStartedSpeaking
    \/ OnUserStoppedSpeaking
    \/ OnAgentStartedSpeaking
    \/ CountedFlush
    \/ CollectedTurn

SpecSummary == InitTracker /\ [][NextSummary]_vars

\* the last handler has stored the row of a turn
JustFlushed == fx.store_calls = 1 \/ fx.inserts # << >>

\* C27 (as claimed): a flush emits the summary exactly when the number of turns
\* flushed so far is a positive multiple of 5.
C27_SummaryEveryFifthTurn ==
    JustFlushed
        => (fx.summary # None <=> (lt.turn_count > 0 /\ lt.turn_count % 5 = 0))

---------------------------------------------------------------------------
(* Several calls in one process.  Each run of entrypoint creates its own    *)
(* LatencyTracker and its own dict turn_metrics in its frame (lines 986 and *)
(* 998); __init__ creates metrics_history and model_config per instance     *)
(* (lines 93-105), and the class has no attribute of its own.  The handlers *)
(* of a call close over the objects of that call.                           *)

\* the objects of a call as entrypoint creates them, lines 986-1005
NewSession == [lt |-> EntrypointTracker, turn_metrics |-> EmptyTurnMetrics]

\* the objects of all calls with one tracker at module level, which every call
\* uses
Delivered_to_shared_tracker(all, s, after) ==
    [o \in DOMAIN all |->
        [lt |-> after.lt,
         turn_metrics |-> IF o = s THEN after.turn_metrics ELSE all[o].turn_metrics]]

\* the objects of all calls after a handler of call s has left the objects of
\* its call as `after`
Delivered(all, s, after) == [all EXCEPT ![s] = after]

InitSessions ==
    /\ lt = EntrypointTracker
    /\ turn_metrics = EmptyTurnMetrics
    /\ now = 1
    /\ supabase = TRUE
    /\ fx = NoEffects
    /\ CacheIdle
    /\ sessions = [s \in 1 .. MaxSessions |-> NewSession]
    /\ outstanding = << >>
    /\ latency_metrics = << >>
    /\ OrdersIdle

\* a handler of call s has run at instant t
SessionHandled(s, after, t, effects) ==
    /\ now' = t
    /\ sessions' = Delivered(sessions, s, after)
    /\ fx' = effects
    /\ UNCHANGED << lt, turn_metrics, supabase, cacheVars, outstanding, latency_metrics,
                    orderVars >>

\* the metric event delivered to the calls between their flushes: the one of a
\* response, which on_metrics_collected keeps in turn_metrics (lines 1034-1049)
SessionEvents ==
    {[Metric("LLMMetrics") EXCEPT !.ttft = Some(1), !.duration = Some(2)]}

\* the turns the calls of the process have counted together
TurnsServed == SumSeq([s \in DOMAIN sessions |-> sessions[s].lt.turn_count])

\* what each handler leaves of the objects of a call
AfterUserStartedSpeaking(own, t) ==
    [own EXCEPT !.lt = on_user_started_speaking(own.lt, t).self]

AfterAgentStoppedSpeaking(own, t) ==
    [own EXCEPT !.lt = on_agent_stopped_speaking(own.lt, t, supabase, "data").self]

AfterMetricsCollected(own, ev) ==
    LET r == on_metrics_collected(own.turn_metrics, own.lt, ev, supabase, "data")
    IN  [lt |-> r.self, turn_metrics |-> r.turn_metrics]

SessionUserStartedSpeaking ==
    \E s \in DOMAIN sessions, t \in Instants :
        SessionHandled(s, AfterUserStartedSpeaking(sessions[s], t), t,
                       on_user_started_speaking(sessions[s].lt, t).fx)

SessionAgentStoppedSpeaking ==
    \E s \in DOMAIN sessions, t \in Instants :
        /\ TurnsServed < MaxTurns
        /\ SessionHandled(s, AfterAgentStoppedSpeaking(sessions[s], t), t,
                          on_agent_stopped_speaking(sessions[s].lt, t, supabase, "data").fx)

SessionMetricsCollected ==
    \E s \in DOMAIN sessions, ev \in SessionEvents :
        /\ SessionHandled(s, AfterMetricsCollected(sessions[s], ev), now,
                          on_metrics_collected(sessions[s].turn_metrics, sessions[s].lt,
                                               ev, supabase, "data").fx)

NextSessions ==
    \/ SessionUserStartedSpeaking
    \/ SessionAgentStoppedSpeaking
    \/ SessionMetricsCollected

SpecSessions == InitSessions /\ [][NextSessions]_vars

---------------------------------------------------------------------------
(* The flush seen from inside.  _store_turn_metrics calls                   *)
(* _store_metrics_in_supabase (line 297), which calls                       *)
(* supabase.table(...).insert(record).execute() (line 415): a synchronous   *)
(* call of the blocking client, made on the thread that runs the callback.  *)
(* Nothing is scheduled, awaited or handed to another thread.  The flush is *)
(* followed here in two steps, the call of execute() and its return; every  *)
(* callback of the tracker runs on the same thread and so waits.            *)

\* the tracker when execute() is called: agent_speech_end set (line 218), the
\* turn counted (line 231), the entry appended (lines 286-295), nothing reset
AtInsert(self, t) ==
    LET stopped == [self EXCEPT !.agent_speech_end = Some(t)]
        counted == [stopped EXCEPT !.turn_count = @ + 1]
    IN  [counted EXCEPT !.metrics_history =
             Append(@, HistoryEntry(counted.turn_count, TurnDurations(counted)))]

\* no write of the tracker is waiting for the store
ThreadFree == outstanding = << >>

\* on_agent_stopped_speaking up to the call of execute(), line 415
InsertCalled ==
    \E t \in Instants :
        /\ ThreadFree
        /\ supabase
        /\ Truthy(lt.turn_start)
        /\ lt.turn_count < MaxTurns
        /\ now' = t
        /\ lt' = AtInsert(lt, t)
        /\ outstanding' = << [record |-> SupabaseRecord(AtInsert(lt, t),
                                                        TurnDurations(AtInsert(lt, t))),
                              before |-> lt,
                              stopped_at |-> t] >>
        /\ fx' = NoEffects
        /\ UNCHANGED << turn_metrics, supabase, cacheVars, sessions, latency_metrics,
                        orderVars >>

\* execute() returns or raises after some time, and on_agent_stopped_speaking
\* runs to its end: lines 417-423, 309-316
InsertReturns ==
    \E t \in Instants, outcome \in InsertOutcomes :
        LET w == outstanding[1]
            r == on_agent_stopped_speaking(w.before, w.stopped_at, supabase, outcome)
        IN  /\ ~ThreadFree
            /\ now' = t
            /\ lt' = r.self
            /\ fx' = r.fx
            /\ outstanding' = << >>
            /\ UNCHANGED << turn_metrics, supabase, cacheVars, sessions, latency_metrics,
                        orderVars >>

\* the callbacks of the next turn, on the thread the write holds
FreeUserStartedSpeaking == ThreadFree /\ OnUserStartedSpeaking

FreeUserStoppedSpeaking == ThreadFree /\ OnUserStoppedSpeaking

FreeAgentStartedSpeaking == ThreadFree /\ OnAgentStartedSpeaking

NextBlocking ==
    \/ FreeUserStartedSpeaking
    \/ FreeUserStoppedSpeaking
    \/ FreeAgentStartedSpeaking
    \/ InsertCalled
    \/ InsertReturns

SpecBlocking == InitTracker /\ [][NextBlocking]_vars

\* C29: while the write of a flushed record is outstanding the tracker is back
\* in IDLE: its turn state is the state _reset_turn_state leaves.
C29_IdleWhileWriteOutstanding ==
    ~ThreadFree => lt = reset_turn_state(lt)

---------------------------------------------------------------------------
\* C31: in every reachable state of the tracker the stages meet: turn_start =
\* user_speech_start, user_speech_end = stt_start, stt_end = llm_start and
\* llm_end = tts_start, each pair unset together or set to the same instant.
C31_StageBoundariesCoincide ==
    /\ lt.turn_start = lt.user_speech_start
    /\ lt.user_speech_end = lt.stt_start
    /\ lt.stt_end = lt.llm_start
    /\ lt.llm_end = lt.tts_start

\* C31 witness: a turn in which all four boundaries are set, the first of them
\* at another instant than the last
C31_Witness ==
    /\ Truthy(lt.turn_start) /\ Truthy(lt.user_speech_end)
    /\ Truthy(lt.stt_end) /\ Truthy(lt.llm_end)
    /\ lt.turn_start # lt.llm_end
    /\ lt.tts_start = lt.llm_end

---------------------------------------------------------------------------
\* C32: the clock never going back, every duration of every row written to the
\* store is >= 0, whatever the order of the callbacks and routed events.
C32_DurationsNonNegative ==
    LET DurationColumns ==
            {"ttfb_ms", "end_to_end_ms", "stt_duration_ms", "llm_ttfb_ms",
             "llm_total_ms", "tts_ttfb_ms", "user_speech_duration_ms",
             "agent_speech_duration_ms"}
    IN  \A i \in DOMAIN fx.written :
            \A k \in DurationColumns \cap DOMAIN fx.written[i] :
                fx.written[i][k] >= 0

---------------------------------------------------------------------------
(* The rows of one call in the table.  Both storage sites write to the      *)
(* table latency_metrics: _store_metrics_in_supabase with turn_number =     *)
(* self.turn_count (line 380) after the increment of line 231, and the      *)
(* handler of entrypoint with turn_number = turn_count + 1 (line 1072)      *)
(* before the increment of line 1098.  A row is in the table when execute() *)
(* has returned rows.                                                       *)

\* the turn numbers of the rows a handler has written, in their order
TurnNumbers(rows) == [i \in DOMAIN rows |-> rows[i].turn_number]

\* on_agent_stopped_speaking with an insert that succeeds, returns nothing or
\* raises
StoredFlush ==
    \E t \in Instants, outcome \in InsertOutcomes :
        LET r == on_agent_stopped_speaking(lt, t, supabase, outcome)
        IN  /\ lt.turn_count < SummaryTurns
            /\ now' = t
            /\ lt' = r.self
            /\ fx' = r.fx
            /\ latency_metrics' = latency_metrics \o TurnNumbers(r.fx.written)
            /\ UNCHANGED << turn_metrics, supabase, cacheVars, sessions, outstanding,
                            orderVars >>

\* on_metrics_collected with the TTSMetrics event that ends a response
StoredCollected ==
    \E outcome \in InsertOutcomes :
        LET r == on_metrics_collected(turn_metrics, lt, Metric("TTSMetrics"),
                                      supabase, outcome)
        IN  /\ lt.turn_count < SummaryTurns
            /\ turn_metrics' = r.turn_metrics
            /\ lt' = r.self
            /\ fx' = r.fx
            /\ latency_metrics' = latency_metrics \o TurnNumbers(r.fx.written)
            /\ UNCHANGED << now, supabase, cacheVars, sessions, outstanding, orderVars >>

NextStore == OnUserStartedSpeaking \/ StoredFlush \/ StoredCollected

SpecStore == InitTracker /\ [][NextStore]_vars

\* C33: the turn_number values of the rows of a call that were written are
\* strictly increasing in the order of writing (so pairwise distinct), whatever
\* writes in between failed.
C33_TurnNumbersIncrease ==
    \A i, j \in DOMAIN latency_metrics :
        i < j => latency_metrics[i] < latency_metrics[j]

\* C33 witness: at least three rows written, the last of them by the handler of
\* entrypoint, with a turn number left out where a write in between failed
C33_Witness ==
    /\ Len(latency_metrics) >= 3
    /\ \E i \in 1 .. Len(latency_metrics) - 1 :
           latency_metrics[i + 1] > latency_metrics[i] + 1
    /\ fx.written # << >>
    /\ fx.store_calls = 0

---------------------------------------------------------------------------
\* C34: turn_count goes up by exactly one at each completed turn (a user
\* utterance followed by an agent response) and is changed by nothing else: the
\* handler of entrypoint counts the TTSMetrics event that ends a response
\* whatever becomes of the insert, and the flush of the tracker counts a turn
\* that has a user utterance and an agent response and no other.
C34_CountedOncePerCompletedTurn ==
    /\ \A outcome \in InsertOutcomes :
           on_metrics_collected(turn_metrics, lt, Metric("TTSMetrics"),
                                supabase, outcome).self.turn_count
               = lt.turn_count + 1
    /\ \A ev \in CollectedEvents, outcome \in InsertOutcomes :
           ev.kind # "TTSMetrics" =>
               on_metrics_collected(turn_metrics, lt, ev,
                                    supabase, outcome).self.turn_count
                   = lt.turn_count
    /\ \A t \in Instants, outcome \in InsertOutcomes :
           on_agent_stopped_speaking(lt, t, supabase, outcome).self.turn_count
               = IF Truthy(lt.turn_start) /\ Truthy(lt.agent_speech_start)
                 THEN lt.turn_count + 1 ELSE lt.turn_count

---------------------------------------------------------------------------
\* C35: a refresh that fails (the query raises or answers without rows) leaves
\* the cache as it was, text and time of caching; when the entry was expired,
\* get() returns None afterwards as well, at that instant and later, and the
\* next call of fetch_menu_for_prompt goes to the query again.
C35_FailedRefreshLeavesEntry ==
    InFlight # {}
        => \A o \in FailedOutcomes :
              LET r == fetch_menu_for_prompt_complete(cache, wall, o)
              IN  /\ r.cache = cache
                  /\ r.cache._cache = cache._cache
                  /\ r.cache._cached_at = cache._cached_at
                  /\ MenuCache_get(cache, wall) = None
                        => \A t \in LaterWallTimes :
                              /\ MenuCache_get(r.cache, t) = None
                              /\ fetch_menu_for_prompt_begin(r.cache, t, FALSE,
                                                             supabase).caller = Fetching

\* C35 witness: the entry is older than TTL, a caller whose query raised was
\* served its text (line 562), the entry is as set() stored it, get() returns
\* None, and another caller has gone to the query
C35_Witness ==
    /\ entry # None
    /\ wall - entry[1].cachedAt > TTL
    /\ cache._cache = entry[1].value
    /\ cache._cached_at = entry[1].cachedAt
    /\ MenuCache_get(cache, wall) = None
    /\ \E c \in DOMAIN callers : callers[c] = Returned(entry[1].value, 562)
    /\ \E c \in DOMAIN callers : callers[c] = Fetching

---------------------------------------------------------------------------
\* C36: after invalidate() a call of fetch_menu_for_prompt whose query fails
\* returns the empty text and not the text cached before: both for the cache as
\* invalidate() leaves it, and in every state where nothing was stored since
\* the last invalidate().
C36_InvalidateRemovesStaleFallback ==
    /\ \A o \in FailedOutcomes, t \in LaterWallTimes :
          LET r == fetch_menu_for_prompt_complete(MenuCache_invalidate(cache), t, o)
          IN  r.caller.result = EmptyText /\ ~r.caller.raised
    /\ (entry = None /\ InFlight # {})
          => \A o \in FailedOutcomes :
                LET r == fetch_menu_for_prompt_complete(cache, wall, o)
                IN  r.caller.result = EmptyText /\ ~r.caller.raised

\* C36 witness: a text was stored (the caller that stored it still holds it),
\* the cache has been invalidated since, and a caller whose query raised has
\* returned the empty text
C36_Witness ==
    /\ entry = None
    /\ cache._cache = EmptyText
    /\ \E c \in DOMAIN callers :
          callers[c].line = 557 /\ callers[c].result # EmptyText
    /\ \E c \in DOMAIN callers : callers[c] = Returned(EmptyText, 564)

---------------------------------------------------------------------------
(* Orders.  RestaurantAgent (Livekit_Voice_Agent.py, lines 572-940) keeps   *)
(* the order of a call in the list current_order; the function tools of     *)
(* agents/tools keep an Order (agents/models/order.py) on the context.      *)
(* Prices are in cents.  A phone number is the sequence of its characters.  *)
(* A tool ends by returning a text or by raising ToolError; reply holds     *)
(* which, the text by its first words, and what the tool sent outside.      *)

\* the entries add_to_order appends to current_order, lines 713-733
OrderEntries ==
    {[name |-> "Margherita", quantity |-> 1, price |-> 1250],
     [name |-> "Cola", quantity |-> 2, price |-> 300]}

CustomerNames == {"Ana"}

\* phone numbers with and without the country code, and the empty string
Phones == {<< "+", "6", "1", "4" >>, << "0", "4" >>, << >>}

\* the ways supabase.table("orders").insert(order_data).execute() ends
OrderInsertOutcomes == {"returned", "raise"}

\* how a tool ended
Reply(tool, ended, text, sent) ==
    Some([tool |-> tool, ended |-> ended, text |-> text, sent |-> sent])

\* sum(i["price"] * i["quantity"] for i in self.current_order), line 822
RECURSIVE OrderTotal(_)
OrderTotal(entries) ==
    IF entries = << >> THEN 0
    ELSE Head(entries).price * Head(entries).quantity + OrderTotal(Tail(entries))

\* sum(i["quantity"] for i in self.current_order), line 854
RECURSIVE ItemCount(_)
ItemCount(entries) ==
    IF entries = << >> THEN 0
    ELSE Head(entries).quantity + ItemCount(Tail(entries))

\* order_data of lines 844-856, without the order id drawn at random
OrderData(entries, customer_name, customer_phone) ==
    [customer_name |-> customer_name, customer_phone |-> customer_phone,
     order_type |-> "pickup", order_status |-> "pending",
     total_order_value |-> OrderTotal(entries), payment_status |-> "pending",
     item_count |-> ItemCount(entries), call_id |-> CallId]

\* submit_order clearing the order before the insert has ended
submit_order_clearing_first(entries, customer_name, customer_phone, sb, outcome) ==
    IF entries = << >>
    THEN [current_order |-> entries,
          reply |-> Reply("submit_order", "returned", "Your order is empty", << >>)]
    ELSE IF ~sb \/ outcome = "raise"
    THEN [current_order |-> << >>,
          reply |-> Reply("submit_order", "returned", "Sorry, there was an issue", << >>)]
    ELSE [current_order |-> << >>,
          reply |-> Reply("submit_order", "returned", "your order is in",
                          << OrderData(entries, customer_name, customer_phone) >>)]

\* RestaurantAgent.submit_order, lines 808-873: current_order afterwards and the
\* reply, whose `sent` is the row inserted.  Without a Supabase client
\* supabase.table raises inside the try (line 859).
submit_order(entries, customer_name, customer_phone, sb, outcome) ==
    IF entries = << >>
    THEN [current_order |-> entries,
          reply |-> Reply("submit_order", "returned", "Your order is empty", << >>)]
    ELSE IF ~sb \/ outcome = "raise"
    THEN [current_order |-> entries,
          reply |-> Reply("submit_order", "returned", "Sorry, there was an issue", << >>)]
    ELSE [current_order |-> << >>,
          reply |-> Reply("submit_order", "returned", "your order is in",
                          << OrderData(entries, customer_name, customer_phone) >>)]

\* OrderStatus, order.py lines 12-19
OrderStatus ==
    [PENDING |-> "pending", CONFIRMED |-> "confirmed", PREPARING |-> "preparing",
     READY |-> "ready", COMPLETED |-> "completed", CANCELLED |-> "cancelled"]

\* Order(), order.py lines 59-88: the fields the tools read or write
NewOrder ==
    [customer_phone |-> None, customer_name |-> None, items |-> << >>,
     status |-> OrderStatus.PENDING, order_type |-> "pickup", payment_link |-> None]

\* get_current_order, order_tools.py lines 18-23: the order of the context, made
\* if the context has none
get_current_order(context_order) ==
    IF context_order = None THEN NewOrder ELSE context_order[1]

\* the items add_item_to_order finds on the menu and hands to Order.add_item
OrderItems ==
    {[name |-> "Burger", quantity |-> 1, unit_price |-> 1200],
     [name |-> "Fries", quantity |-> 2, unit_price |-> 450]}

\* Order.add_item, order.py lines 111-136
Order_add_item(self, item) == [self EXCEPT !.items = Append(@, item)]

\* list.pop(index) for 0 <= index < len(list): the list without the element at
\* position index, counted from 0
Pop(list, index) == SubSeq(list, 1, index) \o SubSeq(list, index + 2, Len(list))

\* Order.remove_item taking the index as counted from 1
Order_remove_item_one_indexed(self, index) ==
    IF 1 <= index /\ index <= Len(self.items)
    THEN [self |-> [self EXCEPT !.items = Pop(@, index - 1)], result |-> TRUE]
    ELSE [self |-> self, result |-> FALSE]

\* Order.remove_item, order.py lines 138-149: the order afterwards and the value
\* returned
Order_remove_item(self, index) ==
    IF 0 <= index /\ index < Len(self.items)
    THEN [self |-> [self EXCEPT !.items = Pop(@, index)], result |-> TRUE]
    ELSE [self |-> self, result |-> FALSE]

\* remove_item_from_order, order_tools.py lines 109-157: the order of the context
\* afterwards and the reply
remove_item_from_order(context_order, item_index) ==
    LET o == get_current_order(context_order)
        index == item_index - 1
    IN  IF o.items = << >>
        THEN [order |-> Some(o),
              reply |-> Reply("remove_item_from_order", "returned",
                              "Your order is currently empty", << >>)]
        ELSE IF index < 0 \/ index >= Len(o.items)
        THEN [order |-> Some(o),
              reply |-> Reply("remove_item_from_order", "returned",
                              "Invalid item number", << >>)]
        ELSE [order |-> Some(Order_remove_item(o, index).self),
              reply |-> Reply("remove_item_from_order", "returned",
                              "I've removed", << o.items[index + 1].name >>)]

\* customer_phone.startswith("+"), payment_tools.py line 61
StartsWithPlus(phone) == Len(phone) >= 1 /\ phone[1] = "+"

\* the ways create_payment_link and send_order_confirmation end
StripeOutcomes == {"link", "raise"}

SmsOutcomes == {"sent", "raise"}

\* complete_order, payment_tools.py lines 37-121: the order of the context
\* afterwards and the reply, whose `sent` is the SMS sent
complete_order(context_order, customer_phone, customer_name, order_type, stripe, sms) ==
    LET o == get_current_order(context_order)
        updated == [o EXCEPT !.customer_phone = Some(customer_phone),
                             !.customer_name = customer_name,
                             !.order_type = order_type,
                             !.status = OrderStatus.CONFIRMED]
        payment_link == "https://pay.example/link"
        linked == [updated EXCEPT !.payment_link = Some(payment_link)]
    IN  IF o.items = << >>
        THEN [order |-> Some(o),
              reply |-> Reply("complete_order", "ToolError",
                              "Cannot complete an empty order", << >>)]
        ELSE IF ~StartsWithPlus(customer_phone)
        THEN [order |-> Some(o),
              reply |-> Reply("complete_order", "ToolError",
                              "Phone number must include country code", << >>)]
        ELSE IF stripe = "raise"
        THEN [order |-> Some(updated),
              reply |-> Reply("complete_order", "ToolError",
                              "Sorry, I encountered an error", << >>)]
        ELSE IF sms = "raise"
        THEN [order |-> Some(linked),
              reply |-> Reply("complete_order", "ToolError",
                              "Sorry, I encountered an error", << >>)]
        ELSE [order |-> Some(linked),
              reply |-> Reply("complete_order", "returned", "Perfect!",
                              << [to |-> customer_phone, payment_link |-> payment_link,
                                  order_type |-> order_type] >>)]

\* the arguments handed to the tools
OrderTypes == {"pickup", "delivery"}

OptionalNames == {None} \cup {Some(n) : n \in CustomerNames}

\* indexes inside and outside an order of up to MaxItems items
Indexes == -1 .. MaxItems + 1

InitOrders ==
    /\ lt = EntrypointTracker
    /\ turn_metrics = EmptyTurnMetrics
    /\ now = 1
    /\ supabase \in BOOLEAN
    /\ fx = NoEffects
    /\ CacheIdle
    /\ ProcessIdle

\* a tool of RestaurantAgent has run
AgentTool(entries, ended) ==
    /\ current_order' = entries
    /\ reply' = ended
    /\ UNCHANGED << trackerVars, cacheVars, sessions, outstanding, latency_metrics, order >>

\* a tool of agents/tools, or a method of the order, has run
OrderTool(after, ended) ==
    /\ order' = after
    /\ reply' = ended
    /\ UNCHANGED << trackerVars, cacheVars, sessions, outstanding, latency_metrics,
                    current_order >>

\* add_to_order with an item of the menu and its options given, line 733
AddToOrder ==
    \E e \in OrderEntries :
        /\ Len(current_order) < MaxItems
        /\ AgentTool(Append(current_order, e),
                     Reply("add_to_order", "returned", "Got it", << >>))

SubmitOrder ==
    \E customer_name \in CustomerNames, customer_phone \in Phones,
       outcome \in OrderInsertOutcomes :
        LET r == submit_order(current_order, customer_name, customer_phone,
                              supabase, outcome)
        IN  AgentTool(r.current_order, r.reply)

\* add_item_to_order with an item found on the menu and available, lines 72-80
AddItemToOrder ==
    \E item \in OrderItems :
        /\ Len(get_current_order(order).items) < MaxItems
        /\ OrderTool(Some(Order_add_item(get_current_order(order), item)),
                     Reply("add_item_to_order", "returned", "Added", << >>))

\* order.remove_item(index) called on the order of the context
RemoveItem ==
    \E index \in Indexes :
        LET r == Order_remove_item(order[1], index)
        IN  /\ order # None
            /\ OrderTool(Some(r.self),
                         Reply("remove_item", IF r.result THEN "True" ELSE "False",
                               "", << >>))

RemoveItemFromOrder ==
    \E item_index \in Indexes :
        LET r == remove_item_from_order(order, item_index)
        IN  OrderTool(r.order, r.reply)

CompleteOrder ==
    \E customer_phone \in Phones, customer_name \in OptionalNames,
       order_type \in OrderTypes, stripe \in StripeOutcomes, sms \in SmsOutcomes :
        LET r == complete_order(order, customer_phone, customer_name, order_type,
                                stripe, sms)
        IN  OrderTool(r.order, r.reply)

NextOrders ==
    \/ AddToOrder
    \/ SubmitOrder
    \/ AddItemToOrder
    \/ RemoveItem
    \/ RemoveItemFromOrder
    \/ CompleteOrder

SpecOrders == InitOrders /\ [][NextOrders]_vars

---------------------------------------------------------------------------
\* C37: submit_order empties current_order exactly when the row of the order
\* was inserted; with an empty order or a failing insert current_order is as
\* before and the reply is not the confirmation.
C37_SubmitClearsIffInserted ==
    \A customer_name \in CustomerNames, customer_phone \in Phones,
       outcome \in OrderInsertOutcomes :
        LET r == submit_order(current_order, customer_name, customer_phone,
                              supabase, outcome)
            inserted == r.reply[1].sent # << >>
            confirmed == r.reply[1].text = "your order is in"
        IN  /\ inserted <=> (current_order # << >> /\ supabase /\ outcome = "returned")
            /\ inserted => (r.current_order = << >> /\ confirmed)
            /\ ~inserted => (r.current_order = current_order /\ ~confirmed)

\* C37 witness: an order of two entries has been submitted and inserted: the row
\* counts three items, the customer was told so, and current_order is empty
C37_Witness ==
    /\ reply # None
    /\ reply[1].tool = "submit_order"
    /\ reply[1].text = "your order is in"
    /\ reply[1].sent # << >>
    /\ reply[1].sent[1].item_count = 3
    /\ current_order = << >>

\* C38: when complete_order raises ToolError (empty order, phone number without
\* "+", payment link not created, SMS not sent) the status, the customer fields,
\* the order type and the payment link of the order are as before the call.
C38_FailedCompletionLeavesOrder ==
    \A customer_phone \in Phones, customer_name \in OptionalNames,
       order_type \in OrderTypes, stripe \in StripeOutcomes, sms \in SmsOutcomes :
        LET r == complete_order(order, customer_phone, customer_name, order_type,
                                stripe, sms)
        IN  r.reply[1].ended = "ToolError"
                => \A f \in {"status", "customer_phone", "customer_name",
                             "order_type", "payment_link"} :
                      r.order[1][f] = get_current_order(order)[f]

\* C39: Order.remove_item(index) returns True and removes the item at position
\* index, and no other, when 0 <= index < len(items); for any other index it
\* returns False and leaves the order as it is.  remove_item_from_order removes
\* the item at position item_index - 1 when 1 <= item_index <= len(items) and no
\* item otherwise.
C39_RemoveItemByPosition ==
    LET o == get_current_order(order)
        n == Len(o.items)
    IN  /\ \A index \in Indexes :
              LET r == Order_remove_item(o, index)
              IN  IF 0 <= index /\ index < n
                  THEN /\ r.result
                       /\ Len(r.self.items) = n - 1
                       /\ \A k \in 1 .. n - 1 :
                             r.self.items[k] = IF k <= index THEN o.items[k]
                                               ELSE o.items[k + 1]
                  ELSE ~r.result /\ r.self = o
        /\ \A item_index \in Indexes :
              LET t == remove_item_from_order(order, item_index)
              IN  IF 1 <= item_index /\ item_index <= n
                  THEN /\ Len(t.order[1].items) = n - 1
                       /\ \A k \in 1 .. n - 1 :
                             t.order[1].items[k] = IF k < item_index THEN o.items[k]
                                                   ELSE o.items[k + 1]
                       /\ t.reply[1].sent = << o.items[item_index].name >>
                  ELSE t.order[1].items = o.items

\* C39 witness: the tool has removed the second of two different items: the
\* first is left, and the reply names the one removed
C39_Witness ==
    /\ reply # None
    /\ reply[1].tool = "remove_item_from_order"
    /\ reply[1].text = "I've removed"
    /\ order # None
    /\ Len(order[1].items) = 1
    /\ reply[1].sent # << order[1].items[1].name >>

===========================================================================
